---- MODULE Spec2Model ----
(***************************************************************************)
(* Hourly ticket-price poller (Supabase edge function hourly-poller).      *)
(*                                                                         *)
(* The relational store (events, poller_runs, event_price_hourly,          *)
(* poller_run_events) is the shared state; every invocation of the         *)
(* Deno.serve handler is a process whose steps are its awaited calls       *)
(* (one database call or one TE fetch per step).  Time is a clock in       *)
(* minutes; timestamps are minutes since the start of the first hour.      *)
(* Prices are integers in cents.                                           *)
(***************************************************************************)
EXTENDS Integers, Sequences, FiniteSets, TLC

(***************************************************************************)
(* Bounds of the model.                                                    *)
(***************************************************************************)
NumInvocations == 2
NumEvents == 3
TickMinutes == 15
MaxClock == 60
MaxDbErrors == 1
\* the handler's BATCH_SIZE is 10 (index.ts:11); the batch is scaled down so
\* that NumEvents events need more than one batch
BATCH_SIZE == 2

(***************************************************************************)
(* Program constants.                                                      *)
(***************************************************************************)
MAX_RETRIES == 3
StaleLockMinutes == 15
HourMinutes == 60
RetentionDaysDefault == 7
DayMinutes == 24 * 60

NULL == 0 - 1
\* an ends_at text that new Date() cannot parse (getTime() is NaN)
UNPARSEABLE == 0 - 2
\* parseFloat of a retail_price that is no number
NaN == 0 - 3

Invocations == 1..NumInvocations
EventIds == 1..NumEvents
Times == 0..MaxClock

(***************************************************************************)
(* truncateToHourUTC: minutes, seconds and milliseconds set to zero.       *)
(***************************************************************************)
truncateToHourUTC(date) == date - (date % HourMinutes)

HourBuckets == {truncateToHourUTC(t) : t \in Times}
\* the hour of a row that is older than any retention horizon
OldHour == 0 - ((RetentionDaysDefault + 1) * DayMinutes)
\* the hour that is the retention cutoff of a run at time 0
CutoffHour == 0 - (RetentionDaysDefault * DayMinutes)
HourlyHours == HourBuckets \cup {OldHour, CutoffHour}
\* the dates (days since day 0) of the daily rows
DailyDates == {h \div DayMinutes : h \in HourlyHours}

(***************************************************************************)
(* Sequence helpers.                                                       *)
(***************************************************************************)
Range(s) == {s[k] : k \in 1..Len(s)}

Min2(a, b) == IF a <= b THEN a ELSE b

RECURSIVE SumSeq(_)
SumSeq(s) == IF s = <<>> THEN 0 ELSE Head(s) + SumSeq(Tail(s))

SeqMin(s) == CHOOSE x \in Range(s) : \A y \in Range(s) : x <= y
SeqMax(s) == CHOOSE x \in Range(s) : \A y \in Range(s) : x >= y

RECURSIVE Filter(_, _)
Filter(s, keep) ==
    IF s = <<>> THEN <<>>
    ELSE IF keep[Head(s)] THEN <<Head(s)>> \o Filter(Tail(s), keep)
         ELSE Filter(Tail(s), keep)

\* the ids of set S in ascending order (the events query is ordered; the
\* model's titles sort like the ids)
RECURSIVE SortedSeq(_)
SortedSeq(S) ==
    IF S = {} THEN <<>>
    ELSE LET m == CHOOSE x \in S : \A y \in S : x <= y
         IN <<m>> \o SortedSeq(S \ {m})

CountStatus(results, st) ==
    Cardinality({k \in 1..Len(results) : results[k].status = st})

(***************************************************************************)
(* TE listings and aggregatePrices (_shared/utils.ts).                     *)
(***************************************************************************)
\* texts are sequences of characters; includes() is the search for a
\* contiguous subsequence, case-sensitive as in JavaScript
Includes(text, part) ==
    \E k \in 0..(Len(text) - Len(part)) :
        SubSeq(text, k + 1, k + Len(part)) = part

badPhrases ==
    {"will be rejected", "accepted but not fulfilled",
     "will be accepted but not fulfilled", "will remain pending",
     "not fulfilled"}

\* the characters of the texts of the model: the bad phrases and the notes
\* of the listings
TextChars(text) ==
    CASE text = "" ->
           <<>>
      [] text = "aisle seats" ->
           <<"a", "i", "s", "l", "e", " ", "s", "e", "a", "t", "s">>
      [] text = "Will Be Rejected" ->
           <<"W", "i", "l", "l", " ", "B", "e", " ", "R", "e", "j", "e",
           "c", "t", "e", "d">>
      [] text = "will be rejected" ->
           <<"w", "i", "l", "l", " ", "b", "e", " ", "r", "e", "j", "e",
           "c", "t", "e", "d">>
      [] text = "accepted but not fulfilled" ->
           <<"a", "c", "c", "e", "p", "t", "e", "d", " ", "b", "u", "t",
           " ", "n", "o", "t", " ", "f", "u", "l", "f", "i", "l", "l", "e",
           "d">>
      [] text = "will be accepted but not fulfilled" ->
           <<"w", "i", "l", "l", " ", "b", "e", " ", "a", "c", "c", "e",
           "p", "t", "e", "d", " ", "b", "u", "t", " ", "n", "o", "t", " ",
           "f", "u", "l", "f", "i", "l", "l", "e", "d">>
      [] text = "will remain pending" ->
           <<"w", "i", "l", "l", " ", "r", "e", "m", "a", "i", "n", " ",
           "p", "e", "n", "d", "i", "n", "g">>
      [] text = "not fulfilled" ->
           <<"n", "o", "t", " ", "f", "u", "l", "f", "i", "l", "l", "e",
           "d">>
      [] text = "Bulls vs Lakers" ->
           <<"B", "u", "l", "l", "s", " ", "v", "s", " ", "L", "a", "k",
           "e", "r", "s">>
      [] text = "Bulls vs Lakers - Game 2" ->
           <<"B", "u", "l", "l", "s", " ", "v", "s", " ", "L", "a", "k",
           "e", "r", "s", " ", "-", " ", "G", "a", "m", "e", " ", "2">>
      [] text = "Rock & Roll (Late)" ->
           <<"R", "o", "c", "k", " ", "&", " ", "R", "o", "l", "l", " ",
           "(", "L", "a", "t", "e", ")">>
      [] text = "Chicago" ->
           <<"C", "h", "i", "c", "a", "g", "o">>
      [] text = "IL" ->
           <<"I", "L">>
      [] text = "United Center" ->
           <<"U", "n", "i", "t", "e", "d", " ", "C", "e", "n", "t", "e",
           "r">>
      [] text = "Soldier Field" ->
           <<"S", "o", "l", "d", "i", "e", "r", " ", "F", "i", "e", "l",
           "d">>
      [] text = "Sports" ->
           <<"S", "p", "o", "r", "t", "s">>

LowerChar(c) ==
    CASE c = "A" -> "a" [] c = "B" -> "b" [] c = "C" -> "c"
      [] c = "D" -> "d" [] c = "E" -> "e" [] c = "F" -> "f"
      [] c = "G" -> "g" [] c = "H" -> "h" [] c = "I" -> "i"
      [] c = "J" -> "j" [] c = "K" -> "k" [] c = "L" -> "l"
      [] c = "M" -> "m" [] c = "N" -> "n" [] c = "O" -> "o"
      [] c = "P" -> "p" [] c = "Q" -> "q" [] c = "R" -> "r"
      [] c = "S" -> "s" [] c = "T" -> "t" [] c = "U" -> "u"
      [] c = "V" -> "v" [] c = "W" -> "w" [] c = "X" -> "x"
      [] c = "Y" -> "y" [] c = "Z" -> "z"
      [] OTHER -> c

ToLowerCase(text) == [k \in 1..Len(text) |-> LowerChar(text[k])]

NotesIncludes(notes, phrase) == Includes(notes, TextChars(phrase))

\* "null": the field is null or undefined
isBuyableListing(listing) ==
    LET raw == IF listing.public_notes # "null" THEN listing.public_notes
               ELSE IF listing.notes # "null" THEN listing.notes ELSE ""
        notes == ToLowerCase(TextChars(raw))
    IN ~ \E phrase \in badPhrases : NotesIncludes(notes, phrase)

\* a retail price is a number of thousandths of a dollar (NaN: no number),
\* a price with two decimals a number of cents, an available quantity a
\* number of halves
PriceUnit == 1000
CentUnit == 100
QuantityUnit == 2

\* a toFixed that cuts the decimals off
toFixed2Truncates(num, den) ==
    num \div (den * (PriceUnit \div CentUnit))

\* parseFloat(x.toFixed(2)) of the number num / den: the number with two
\* decimals nearest to it, the larger one of two
toFixed2(num, den) ==
    (2 * num + den * (PriceUnit \div CentUnit))
        \div (2 * den * (PriceUnit \div CentUnit))

isEligibleListing(listing) ==
    /\ listing.type = "event"
    /\ isBuyableListing(listing)
    /\ listing.retail_price # NaN
    /\ listing.retail_price > 0
    /\ listing.retail_price < 100000 * PriceUnit
    /\ listing.available_quantity >= 2 * QuantityUnit
    /\ listing.available_quantity < 10000 * QuantityUnit
    /\ 2 \in listing.splits

NullAggregate ==
    [listing_count |-> NULL, min_price |-> NULL, avg_price |-> NULL,
     max_price |-> NULL]

aggregatePrices(listings) ==
    LET eligibleListings ==
            Filter(listings, [l \in Range(listings) |-> isEligibleListing(l)])
        prices == [k \in 1..Len(eligibleListings) |->
                      eligibleListings[k].retail_price]
        n == Len(prices)
    IN IF listings = <<>> \/ eligibleListings = <<>> THEN NullAggregate
       ELSE [listing_count |-> n,
             min_price |-> toFixed2(SeqMin(prices), 1),
             avg_price |-> toFixed2(SumSeq(prices), n),
             max_price |-> toFixed2(SeqMax(prices), 1)]

Listing(type, price, qty, splits, pub, notes) ==
    [type |-> type, retail_price |-> price, available_quantity |-> qty,
     splits |-> splits, public_notes |-> pub, notes |-> notes]

\* the listings payloads TE answers with in the model
TePayloads ==
    { <<>>,
      << Listing("parking", 50000, 8, {2, 4}, "null", "null"),
         Listing("event", 90000, 2, {1}, "null", "null"),
         Listing("event", 80000, 8, {2}, "null", "Will Be Rejected") >>,
      << Listing("event", 135500, 8, {2, 4}, "null", "null") >>,
      << Listing("event", 100000, 4, {2}, "aisle seats", "null"),
         Listing("event", 135510, 12, {1, 2, 3}, "null", "null"),
         Listing("event", 70000, 8, {1, 3}, "null", "null") >> }

(***************************************************************************)
(* TicketEvolutionClient (_shared/te-api.ts).  A URL is the record of the  *)
(* parts new URL() gives; a path is a sequence of segments and slashes; a  *)
(* parameter map is the sequence of its <<key, value>> pairs in insertion  *)
(* order, a value a sequence of characters.                                *)
(***************************************************************************)
\* the characters of the parameter keys, lower-case letters, digits and "_"
KeyChars(key) ==
    CASE key = "event_id" -> <<"e", "v", "e", "n", "t", "_", "i", "d">>
      [] key = "type" -> <<"t", "y", "p", "e">>
      [] key = "q" -> <<"q">>
      [] key = "per_page" -> <<"p", "e", "r", "_", "p", "a", "g", "e">>

\* the UTF-16 code units of these characters, in ascending order
CodeOrder ==
    <<"0", "1", "2", "3", "4", "5", "6", "7", "8", "9", "_", "a", "b", "c",
    "d", "e", "f", "g", "h", "i", "j", "k", "l", "m", "n", "o", "p", "q",
    "r", "s", "t", "u", "v", "w", "x", "y", "z">>

CodeOf(c) == CHOOSE k \in 1..Len(CodeOrder) : CodeOrder[k] = c

\* a < b as Array.prototype.sort() compares strings: by code units
RECURSIVE TextBefore(_, _)
TextBefore(a, b) ==
    IF b = <<>> THEN FALSE
    ELSE IF a = <<>> THEN TRUE
    ELSE IF Head(a) = Head(b) THEN TextBefore(Tail(a), Tail(b))
    ELSE CodeOf(Head(a)) < CodeOf(Head(b))

\* keys left in the order they were inserted
KeysUnsorted(keys) == keys

\* Object.keys(params).sort()
RECURSIVE SortKeys(_)
SortKeys(keys) ==
    IF keys = <<>> THEN <<>>
    ELSE LET m == CHOOSE k \in 1..Len(keys) :
                    \A j \in 1..Len(keys) :
                        j # k => TextBefore(KeyChars(keys[k]),
                                            KeyChars(keys[j]))
         IN <<keys[m]>>
            \o SortKeys([j \in 1..(Len(keys) - 1) |->
                            IF j < m THEN keys[j] ELSE keys[j + 1]])

ObjectKeys(params) == [k \in 1..Len(params) |-> params[k][1]]

ValueOf(params, key) ==
    LET k == CHOOSE j \in 1..Len(params) : params[j][1] = key
    IN params[k][2]

\* one character in application/x-www-form-urlencoded form
UrlEncodeChar(c) ==
    CASE c = " " -> <<"+">>
      [] c = "+" -> <<"%", "2", "B">>
      [] c = "&" -> <<"%", "2", "6">>
      [] c = "=" -> <<"%", "3", "D">>
      [] OTHER -> <<c>>

RECURSIVE UrlEncode(_)
UrlEncode(text) ==
    IF text = <<>> THEN <<>>
    ELSE UrlEncodeChar(Head(text)) \o UrlEncode(Tail(text))

\* s.replace(/part/g, by) for a literal part
RECURSIVE ReplaceAll(_, _, _)
ReplaceAll(text, part, by) ==
    IF Len(text) < Len(part) THEN text
    ELSE IF SubSeq(text, 1, Len(part)) = part
    THEN by \o ReplaceAll(SubSeq(text, Len(part) + 1, Len(text)), part, by)
    ELSE <<Head(text)>> \o ReplaceAll(Tail(text), part, by)

\* new URLSearchParams(sortedParams).toString(): key=value joined by "&"
RECURSIVE SearchParamsText(_, _)
SearchParamsText(keys, params) ==
    IF keys = <<>> THEN <<>>
    ELSE <<Head(keys), "=">> \o UrlEncode(ValueOf(params, Head(keys)))
         \o (IF Tail(keys) = <<>> THEN <<>>
             ELSE <<"&">> \o SearchParamsText(Tail(keys), params))

SandboxUrl ==
    [href |-> "https://api.sandbox.ticketevolution.com/v9",
     hostname |-> "api.sandbox.ticketevolution.com",
     pathname |-> <<"/", "v9">>]

ProductionUrl ==
    [href |-> "https://api.ticketevolution.com/v9",
     hostname |-> "api.ticketevolution.com",
     pathname |-> <<"/", "v9">>]

\* the values of TE_API_BASE_URL: "null" is the unset variable
BaseUrlOf(value) ==
    CASE value = "https://api.sandbox.ticketevolution.com/v9" -> SandboxUrl
      [] value = "https://api.ticketevolution.com/v9" -> ProductionUrl
      [] value = "https://api.ticketevolution.com/v9/" ->
           [ProductionUrl EXCEPT !.href = value,
                                 !.pathname = <<"/", "v9", "/">>]

\* new TicketEvolutionClient(teToken, teSecret, teBaseUrl): the constructor
\* has two parameters; baseUrl keeps its initial value
TicketEvolutionClient(token, secret, teBaseUrl) ==
    [apiToken |-> token, apiSecret |-> secret, baseUrl |-> SandboxUrl]

\* HMAC-SHA256 of the message under the secret, base64; the model keeps the
\* pair: equal signatures are signatures of equal messages and secrets
HmacSha256(secret, message) == [hmac |-> <<secret, message>>]

StartsWithSlash(path) == path # <<>> /\ Head(path) = "/"

\* the message generateSignature signs
StringToSign(client, method, path, params) ==
    LET sortedKeys == SortKeys(ObjectKeys(params))
        queryString ==
            IF Len(sortedKeys) > 0
            THEN <<"?">> \o ReplaceAll(SearchParamsText(sortedKeys, params),
                                       <<"+">>, <<"%", "2", "0">>)
            ELSE <<"?">>
        cleanPath == IF StartsWithSlash(path) THEN path ELSE <<"/">> \o path
    IN <<method, " ", client.baseUrl.hostname>> \o cleanPath \o queryString

generateSignature(client, method, path, params) ==
    HmacSha256(client.apiSecret, StringToSign(client, method, path, params))

\* pathname.replace(/\/$/, "")
VersionPrefix(url) ==
    IF url.pathname # <<>> /\ url.pathname[Len(url.pathname)] = "/"
    THEN SubSeq(url.pathname, 1, Len(url.pathname) - 1)
    ELSE url.pathname

\* the request get() sends: the URL it fetches (base URL, path, the
\* parameters appended in insertion order) and its headers
EndpointPath(endpoint) ==
    IF StartsWithSlash(endpoint) THEN endpoint ELSE <<"/">> \o endpoint

\* the path get() signs: the version prefix and the endpoint
FullPath(client, endpoint) ==
    VersionPrefix(client.baseUrl) \o EndpointPath(endpoint)

TeGet(client, endpoint, params) ==
    LET endpointPath == EndpointPath(endpoint)
        fullPath == FullPath(client, endpoint)
    IN [base |-> client.baseUrl.href,
        path |-> endpointPath,
        searchParams |-> params,
        token |-> client.apiToken,
        signature |-> generateSignature(client, "GET", fullPath, params),
        signed |-> StringToSign(client, "GET", fullPath, params)]

(***************************************************************************)
(* buildOltEventUrl (_shared/olt-url.ts).  A TE event is the record of the *)
(* fields the function reads, "null" for a missing text.                   *)
(***************************************************************************)
PLACEHOLDER == <<"z", "z", "z", "t", "r", "i", "p", "l", "e", "h", "y", "p", "h", "e",
    "n", "z", "z", "z">>

\* \s of the catalogue's texts
SpaceChars == {" "}

IsSpace(c) == c \in SpaceChars

\* [a-z0-9()]
SlugChars ==
    {"a", "b", "c", "d", "e", "f", "g", "h", "i", "j", "k", "l", "m", "n",
     "o", "p", "q", "r", "s", "t", "u", "v", "w", "x", "y", "z", "0", "1",
     "2", "3", "4", "5", "6", "7", "8", "9", "(", ")"}

RECURSIVE TrimStart(_)
TrimStart(text) ==
    IF text # <<>> /\ IsSpace(Head(text)) THEN TrimStart(Tail(text))
    ELSE text

RECURSIVE TrimEnd(_)
TrimEnd(text) ==
    IF text # <<>> /\ IsSpace(text[Len(text)])
    THEN TrimEnd(SubSeq(text, 1, Len(text) - 1))
    ELSE text

Trim(text) == TrimEnd(TrimStart(text))

Drop(text, n) == SubSeq(text, n + 1, Len(text))

\* the length of the longest prefix of text whose characters are in the
\* set (within) or all outside it (not within)
RECURSIVE RunLength(_, _, _)
RunLength(text, set, within) ==
    IF text # <<>> /\ (Head(text) \in set) = within
    THEN 1 + RunLength(Tail(text), set, within)
    ELSE 0

\* .replace(/\s+-\s+/g, "---")
RECURSIVE ReplaceSpacedHyphens(_)
ReplaceSpacedHyphens(text) ==
    IF text = <<>> THEN <<>>
    ELSE LET n == RunLength(text, SpaceChars, TRUE)
             rest == Drop(text, n)
             m == IF rest # <<>> /\ Head(rest) = "-"
                  THEN RunLength(Tail(rest), SpaceChars, TRUE) ELSE 0
         IN IF n > 0 /\ m > 0
            THEN <<"-", "-", "-">>
                 \o ReplaceSpacedHyphens(Drop(text, n + 1 + m))
            ELSE <<Head(text)>> \o ReplaceSpacedHyphens(Tail(text))

\* .replace(/[^a-z0-9()]+/g, "-")
RECURSIVE ReplaceOtherRuns(_)
ReplaceOtherRuns(text) ==
    IF text = <<>> THEN <<>>
    ELSE LET n == RunLength(text, SlugChars, FALSE)
         IN IF n > 0 THEN <<"-">> \o ReplaceOtherRuns(Drop(text, n))
            ELSE <<Head(text)>> \o ReplaceOtherRuns(Tail(text))

\* .replace(/-{4,}/g, "---")
RECURSIVE CollapseLongRuns(_)
CollapseLongRuns(text) ==
    IF text = <<>> THEN <<>>
    ELSE LET n == RunLength(text, {"-"}, TRUE)
         IN IF n >= 4 THEN <<"-", "-", "-">> \o CollapseLongRuns(Drop(text, n))
            ELSE IF n > 0
            THEN SubSeq(text, 1, n) \o CollapseLongRuns(Drop(text, n))
            ELSE <<Head(text)>> \o CollapseLongRuns(Tail(text))

\* .replace(/^-|-$/g, "")
StripEdgeHyphens(text) ==
    LET a == IF text # <<>> /\ Head(text) = "-" THEN Tail(text) ELSE text
    IN IF a # <<>> /\ a[Len(a)] = "-" THEN SubSeq(a, 1, Len(a) - 1) ELSE a

\* the chain of replacements of slugify for the characters of String(s || "")
SlugOf(text) ==
    LET r1 == ReplaceSpacedHyphens(
                  ReplaceAll(Trim(ToLowerCase(text)), <<"&">>,
                             <<"a", "n", "d">>))
        r2 == ReplaceAll(r1, <<"-", "-", "-">>, PLACEHOLDER)
        r3 == ReplaceOtherRuns(r2)
        r4 == ReplaceAll(r3, PLACEHOLDER, <<"-", "-", "-">>)
        r5 == CollapseLongRuns(r4)
        r6 == ReplaceAll(r5, <<"-", "-", "-">>, PLACEHOLDER)
        r7 == ReplaceAll(r6, <<"-", "-">>, <<"-">>)
        r8 == ReplaceAll(r7, PLACEHOLDER, <<"-", "-", "-">>)
    IN StripEdgeHyphens(r8)

\* slugify(s) for the text named s; "null" is undefined
slugify(s) == SlugOf(IF s = "null" THEN <<>> ELSE TextChars(s))

DEFAULT_TZ == "America/Chicago"

\* the offsets from UTC, in minutes, of the time zones Intl knows; any
\* other name makes Intl.DateTimeFormat throw a RangeError
TimeZoneOffset(tz) ==
    CASE tz = "America/Chicago" -> 0 - 360
      [] tz = "America/New_York" -> 0 - 300
      [] OTHER -> NULL

IsTimeZone(tz) == TimeZoneOffset(tz) # NULL

\* weekday, day number and month of the instant in the zone: the model
\* keeps the number of the local day, which determines the three
dateSlugParts(at, tz) ==
    [day |-> (at + TimeZoneOffset(tz)) \div DayMinutes]

\* "h:mm-am" or "h:mm-pm" of the instant in the zone
formatTimeSlug(at, tz) ==
    LET minute == (at + TimeZoneOffset(tz)) % DayMinutes
        hour == minute \div HourMinutes
    IN <<IF hour % 12 = 0 THEN 12 ELSE hour % 12, ":",
         minute % HourMinutes, "-", IF hour < 12 THEN "am" ELSE "pm">>

TeEvent(id, name, occurs_at, venue, timezone, category) ==
    [id |-> id, name |-> name, occurs_at |-> occurs_at,
     venue |-> venue, timezone |-> timezone, category |-> category]

Venue(city, state_code, name) ==
    [city |-> city, state_code |-> state_code, name |-> name]

\* a timestamp: the instant, in minutes, and the notation of its text
Time(at, text) == [at |-> at, text |-> text]

\* a missing timestamp (undefined) and a text that is no date
NoTime == Time(NaN, "undefined")

NotADate == Time(NaN, "not a date")

\* a missing venue: e.venue || {}
NoVenue == Venue("null", "null", "null")

\* a null occurs_at: new Date(null) is the epoch
NullOccursAt == Time(0, "null")

\* new Date(text).getTime(): NaN for a missing or unparseable text
DateMs(occurs_at) == occurs_at.at

\* buildOltEventUrl(event): [ok, url] or the RangeError Intl throws for an
\* invalid date or an unknown time zone
buildOltEventUrl(e) ==
    LET v == e.venue
        tz == IF e.timezone = "null" THEN DEFAULT_TZ ELSE e.timezone
        dt == DateMs(e.occurs_at)
        stateSlug == IF v.state_code = "null" THEN <<>>
                     ELSE ToLowerCase(TextChars(v.state_code))
        catSlug == slugify(e.category)
    IN IF ~IsTimeZone(tz) \/ dt = NaN
       THEN [ok |-> FALSE, error |-> "RangeError"]
       ELSE [ok |-> TRUE,
             url |-> [base |-> "https://www.onlylocaltickets.com",
                      slug |-> slugify(e.name) \o <<"-tickets", "_">>
                               \o slugify(v.city) \o <<"-">> \o stateSlug
                               \o <<"_">> \o slugify(v.name)
                               \o <<"_", dateSlugParts(dt, tz), "-at-">>
                               \o formatTimeSlug(dt, tz)
                               \o (IF catSlug # <<>> THEN <<"_">> \o catSlug
                                   ELSE <<>>),
                      eventId |-> e.id,
                      quantity |-> 0]]

(***************************************************************************)
(* refresh-event-metadata: the request, the selection of ids and the       *)
(* proposal for one stored row.                                            *)
(***************************************************************************)
EVENT_DURATION_HOURS == 4

\* a null timestamp column and a null olt_url
NullTime == Time(NULL, "null")

NoUrl == [base |-> "null", slug |-> <<>>, eventId |-> NULL, quantity |-> 0]

\* a row of the events table, as the refresher selects and updates it
EventsRow(title, starts_at, ends_at, ended_at, polling_enabled, olt_url, updated_at) ==
    [title |-> title, starts_at |-> starts_at, ends_at |-> ends_at,
     ended_at |-> ended_at, polling_enabled |-> polling_enabled,
     olt_url |-> olt_url, updated_at |-> updated_at]

\* new Date(ms).toISOString()
toISOString(at) == Time(at, "iso")

\* what a timestamp column gives back for a written text: a timestamptz
\* column its own notation of the instant, a text column the text itself
Stored(column, t) ==
    IF column = "timestamptz" /\ t # NullTime THEN Time(t.at, "db") ELSE t

\* Number.parseInt(text, 10) for the texts of the requests
ParseInt(text) ==
    CASE text = "1" -> 1
      [] text = "2" -> 2
      [] text = "0" -> 0
      [] text = "-5" -> 0 - 5
      [] OTHER -> NaN

\* Number.isFinite(x): false for null and NaN
IsFinite(x) == x \notin {NULL, NaN}

\* a request: the query parameter event_id and the fields of the body,
\* "null" for an absent one; te_event_ids is [given, ids]
Request(query, event_id, te_event_ids, dry_run) ==
    [query |-> query, event_id |-> event_id, te_event_ids |-> te_event_ids,
     dry_run |-> dry_run]

NoArray == [given |-> FALSE, ids |-> <<>>]

ArrayOf(ids) == [given |-> TRUE, ids |-> ids]

\* a handler that applies whatever dry_run says
DryRunIgnored(request) == FALSE

\* body.dry_run ?? true
DryRunOf(request) ==
    IF request.dry_run = "null" THEN TRUE ELSE request.dry_run = "true"

RECURSIVE FilterIds(_)
FilterIds(ids) ==
    IF ids = <<>> THEN <<>>
    ELSE (IF IsFinite(Head(ids)) /\ Head(ids) > 0 THEN <<Head(ids)>>
          ELSE <<>>) \o FilterIds(Tail(ids))

\* requestedIds: [all |-> TRUE] stands for null
RequestedIds(request) ==
    LET queryEventId == IF request.query # "null"
                        THEN ParseInt(request.query) ELSE NULL
        bodyEventId == IF request.event_id # "null"
                       THEN ParseInt(request.event_id) ELSE NULL
        singleEventId == IF IsFinite(queryEventId) THEN queryEventId
                         ELSE IF IsFinite(bodyEventId) THEN bodyEventId
                         ELSE NULL
        requestedIdsFromArray ==
            IF request.te_event_ids.given
            THEN [all |-> FALSE, ids |-> FilterIds(request.te_event_ids.ids)]
            ELSE [all |-> TRUE, ids |-> <<>>]
    IN IF IsFinite(singleEventId) /\ singleEventId > 0
       THEN [all |-> FALSE, ids |-> <<singleEventId>>]
       ELSE requestedIdsFromArray

\* the ids of the rows the events query returns, in ascending order
SelectedIds(requestedIds, table) ==
    IF ~requestedIds.all /\ Len(requestedIds.ids) > 0
    THEN SortedSeq(DOMAIN table \cap Range(requestedIds.ids))
    ELSE SortedSeq(DOMAIN table)

\* the rows of the events query: the stored row with its te_event_id
SelectRows(requestedIds, table) ==
    LET ids == SelectedIds(requestedIds, table)
    IN [k \in 1..Len(ids) |-> [te_event_id |-> ids[k], row |-> table[ids[k]]]]

RefreshError(message) == [status |-> "error", error |-> message]

\* the body of the loop for one row up to the UPDATE: the error it throws,
\* status unchanged, or status updated with the changed fields and the
\* payload of the UPDATE
RefreshEventWith(row, tePayload, nowMs, policy) ==
    IF ~tePayload.ok THEN RefreshError(tePayload.error)
    ELSE
    LET teEvent == tePayload.event
        title == teEvent.name
        startsAt == teEvent.occurs_at
        startMs == DateMs(startsAt)
        endsAt == toISOString(startMs + EVENT_DURATION_HOURS * HourMinutes)
        hasEnded == nowMs > endsAt.at
        nextPollingEnabled == IF hasEnded THEN FALSE ELSE row.polling_enabled
        nextEndedAt == IF row.ended_at # NullTime THEN row.ended_at
                       ELSE IF hasEnded THEN toISOString(nowMs) ELSE NullTime
        titleChanged == row.title # title
        startsAtChanged == row.starts_at # startsAt
        endsAtChanged == row.ends_at # endsAt
        failClosed == policy # "open"
        shouldRegenerateOltUrl ==
            policy = "always" \/ row.olt_url = NoUrl \/ titleChanged
            \/ startsAtChanged \/ endsAtChanged
        built == buildOltEventUrl(teEvent)
        nextOltUrl == IF shouldRegenerateOltUrl /\ (failClosed \/ built.ok)
                      THEN built.url
                      ELSE row.olt_url
        changedFields ==
            (IF titleChanged THEN <<"title">> ELSE <<>>)
            \o (IF startsAtChanged THEN <<"starts_at">> ELSE <<>>)
            \o (IF endsAtChanged THEN <<"ends_at">> ELSE <<>>)
            \o (IF row.polling_enabled # nextPollingEnabled
                THEN <<"polling_enabled">> ELSE <<>>)
            \o (IF row.ended_at # nextEndedAt THEN <<"ended_at">> ELSE <<>>)
            \o (IF row.olt_url # nextOltUrl THEN <<"olt_url">> ELSE <<>>)
    IN IF title \in {"null", ""} \/ startsAt = NoTime
       THEN RefreshError("TE event missing required fields: name/occurs_at")
       ELSE IF startMs = NaN
       THEN RefreshError("Invalid occurs_at timestamp")
       ELSE IF failClosed /\ shouldRegenerateOltUrl /\ ~built.ok
       THEN RefreshError(built.error)
       ELSE IF changedFields = <<>> THEN [status |-> "unchanged"]
       ELSE [status |-> "updated", changes |-> changedFields,
             payload |-> EventsRow(title, startsAt, endsAt, nextEndedAt,
                                   nextPollingEnabled, nextOltUrl,
                                   toISOString(nowMs))]

\* a loop body that keeps the stored olt_url when buildOltEventUrl throws
RefreshEventFailOpen(row, tePayload, nowMs) ==
    RefreshEventWith(row, tePayload, nowMs, "open")

\* a loop body that rebuilds olt_url for every row
RefreshEventRegenerates(row, tePayload, nowMs) ==
    RefreshEventWith(row, tePayload, nowMs, "always")

RefreshEvent(row, tePayload, nowMs) ==
    RefreshEventWith(row, tePayload, nowMs, "closed")

\* the row an UPDATE with the payload leaves in the table
UpdatedRow(column, payload) ==
    [payload EXCEPT !.starts_at = Stored(column, payload.starts_at),
                    !.ends_at = Stored(column, payload.ends_at),
                    !.ended_at = Stored(column, payload.ended_at),
                    !.updated_at = Stored(column, payload.updated_at)]

\* mapTeEventToUpsertRow (populateEventsByPerformer.js): the fields of the
\* upsert row, or "null" when the event is skipped; olt_url is left out
\* (NoUrl here) when buildOltEventUrl throws
mapTeEventToUpsertRow(teEvent, now) ==
    LET startMs == DateMs(teEvent.occurs_at)
        endsAt == toISOString(startMs + EVENT_DURATION_HOURS * HourMinutes)
        hasEnded == now > endsAt.at
        built == buildOltEventUrl(teEvent)
    IN IF teEvent.name \in {"null", ""} \/ startMs = NaN
       THEN [skipped |-> TRUE]
       ELSE [skipped |-> FALSE,
             row |-> EventsRow(teEvent.name, teEvent.occurs_at, endsAt,
                               IF hasEnded THEN toISOString(now)
                               ELSE NullTime,
                               ~hasEnded,
                               IF built.ok THEN built.url ELSE NoUrl,
                               toISOString(now))]

\* the row .upsert(row, {onConflict: "te_event_id"}) leaves for an existing
\* row: every column of the upsert row replaces the stored one
PopulateUpsertRow(column, existing, upsert) ==
    [UpdatedRow(column, upsert) EXCEPT
        !.olt_url = IF upsert.olt_url = NoUrl THEN existing.olt_url
                    ELSE upsert.olt_url]

\* upsertEvent.js for an existing row, without the optional overrides: the
\* columns of upsertData after the deletes; ended_at is among them only
\* when the event is over and the row read had none
UpsertEventRow(column, stored, existing, teEvent, now) ==
    LET startMs == DateMs(teEvent.occurs_at)
        endsAt == toISOString(startMs + EVENT_DURATION_HOURS * HourMinutes)
        over == now > endsAt.at
    IN [stored EXCEPT
          !.title = teEvent.name,
          !.starts_at = Stored(column, teEvent.occurs_at),
          !.ends_at = Stored(column, endsAt),
          !.updated_at = Stored(column, toISOString(now)),
          !.ended_at = IF over /\ existing.ended_at = NullTime
                       THEN Stored(column, toISOString(now))
                       ELSE @]

\* the entry of results for an outcome of the loop body
ResultEntry(id, outcome) ==
    CASE outcome.status = "error" ->
           [te_event_id |-> id, status |-> "error", error |-> outcome.error]
      [] outcome.status = "unchanged" ->
           [te_event_id |-> id, status |-> "unchanged"]
      [] outcome.status = "updated" ->
           [te_event_id |-> id, status |-> "updated",
            changes |-> outcome.changes]

\* the body of the 200 response
RefreshResponse(dryRun, requestedIds, rows, results) ==
    [status |-> "ok",
     mode |-> IF dryRun THEN "dry_run" ELSE "apply",
     requested_ids |-> requestedIds,
     scanned |-> Len(rows),
     updated |-> CountStatus(results, "updated"),
     unchanged |-> CountStatus(results, "unchanged"),
     errors |-> CountStatus(results, "error"),
     results |-> results]

(***************************************************************************)
(* TE responses and fetchWithRetry.  An error message is the text          *)
(* "TE API Error: <status> <statusText> - <errorText>" (te-api.ts:98-103)  *)
(* or a network error, or the SyntaxError of response.json() on a body     *)
(* that is no JSON; the model keeps the HTTP status (0: none) and the      *)
(* tokens its text holds.  The statusText of a response is the reason      *)
(* phrase of its status.                                                   *)
(***************************************************************************)
DigitChar(d) ==
    <<"0", "1", "2", "3", "4", "5", "6", "7", "8", "9">>[d + 1]

\* the decimal text of a number of the template literal
RECURSIVE NumberText(_)
NumberText(n) ==
    IF n < 10 THEN <<DigitChar(n)>>
    ELSE NumberText(n \div 10) \o <<DigitChar(n % 10)>>

\* the message of the Error that TicketEvolutionClient.get throws for a
\* response that is not ok
TeApiErrorText(status, statusText, errorText) ==
    <<"T", "E", " ", "A", "P", "I", " ", "E", "r", "r", "o", "r", ":", " ">>
    \o NumberText(status) \o <<" ">> \o statusText \o <<" ", "-", " ">>
    \o errorText

\* the failures of a TE call in the model: HTTP responses that are not ok
\* (status, statusText, body), errors of fetch itself and of response.json()
\* (status 0 or 200); name is how the rest of the model refers to the message
TeFailures ==
    { [name |-> "TE API Error: 404", status |-> 404, network |-> FALSE,
       chars |-> TeApiErrorText(404,
                    <<"N", "o", "t", " ", "F", "o", "u", "n", "d">>,
                    <<>>)],
      [name |-> "TE API Error: 503", status |-> 503, network |-> FALSE,
       chars |-> TeApiErrorText(503,
                    <<"S", "e", "r", "v", "i", "c", "e", " ", "U", "n", "a",
                    "v", "a", "i", "l", "a", "b", "l", "e">>,
                    <<>>)],
      [name |-> "TE API Error: 408", status |-> 408, network |-> FALSE,
       chars |-> TeApiErrorText(408,
                    <<"R", "e", "q", "u", "e", "s", "t", " ", "T", "i", "m",
                    "e", "o", "u", "t">>,
                    <<>>)],
      [name |-> "TE API Error: 429", status |-> 429, network |-> FALSE,
       chars |-> TeApiErrorText(429,
                    <<"T", "o", "o", " ", "M", "a", "n", "y", " ", "R", "e",
                    "q", "u", "e", "s", "t", "s">>,
                    <<>>)],
      [name |-> "TE API Error: 500", status |-> 500, network |-> FALSE,
       chars |-> TeApiErrorText(500,
                    <<"I", "n", "t", "e", "r", "n", "a", "l", " ", "S", "e",
                    "r", "v", "e", "r", " ", "E", "r", "r", "o", "r">>,
                    <<>>)],
      [name |-> "TE API Error: 502", status |-> 502, network |-> FALSE,
       chars |-> TeApiErrorText(502,
                    <<"B", "a", "d", " ", "G", "a", "t", "e", "w", "a",
                    "y">>,
                    <<>>)],
      [name |-> "TE API Error: 504", status |-> 504, network |-> FALSE,
       chars |-> TeApiErrorText(504,
                    <<"G", "a", "t", "e", "w", "a", "y", " ", "T", "i", "m",
                    "e", "o", "u", "t">>,
                    <<>>)],
      [name |-> "TE API Error: 400", status |-> 400, network |-> FALSE,
       chars |-> TeApiErrorText(400,
                    <<"B", "a", "d", " ", "R", "e", "q", "u", "e", "s",
                    "t">>,
                    <<>>)],
      [name |-> "TE API Error: 404 event 15003", status |-> 404, network |-> FALSE,
       chars |-> TeApiErrorText(404,
                    <<"N", "o", "t", " ", "F", "o", "u", "n", "d">>,
                    <<"e", "v", "e", "n", "t", " ", "1", "5", "0", "0", "3">>)],
      [name |-> "timeout", status |-> 0, network |-> TRUE,
       chars |-> <<"t", "i", "m", "e", "o", "u", "t">>],
      [name |-> "connection refused", status |-> 0, network |-> TRUE,
       chars |-> <<"c", "o", "n", "n", "e", "c", "t", "i", "o", "n", " ",
                "r", "e", "f", "u", "s", "e", "d">>],
      [name |-> "Unexpected token", status |-> 200, network |-> FALSE,
       chars |-> <<"U", "n", "e", "x", "p", "e", "c", "t", "e", "d", " ",
                "t", "o", "k", "e", "n">>] }

MessageChars(message) ==
    (CHOOSE f \in TeFailures : f.name = message).chars

TokenChars(token) ==
    CASE token = "429" -> <<"4", "2", "9">>
      [] token = "500" -> <<"5", "0", "0">>
      [] token = "502" -> <<"5", "0", "2">>
      [] token = "503" -> <<"5", "0", "3">>
      [] token = "timeout" -> <<"t", "i", "m", "e", "o", "u", "t">>

\* err.message?.includes(token)
MessageIncludes(message, token) ==
    Includes(MessageChars(message), TokenChars(token))

\* the failures TE answers with while a run polls
TeErrors ==
    { [status |-> f.status,
       tokens |-> {t \in {"429", "500", "502", "503", "timeout"} :
                      MessageIncludes(f.name, t)},
       text |-> f.name] :
      f \in {g \in TeFailures :
                g.name \in {"TE API Error: 404", "TE API Error: 503",
                            "timeout", "Unexpected token"}} }

TeResponses ==
    {[ok |-> TRUE, listings |-> p, error |-> "null"] : p \in TePayloads}
    \cup {[ok |-> FALSE, listings |-> <<>>, error |-> e.text] : e \in TeErrors}

isRetryable(message) ==
    \/ MessageIncludes(message, "429")
    \/ MessageIncludes(message, "500")
    \/ MessageIncludes(message, "502")
    \/ MessageIncludes(message, "503")
    \/ MessageIncludes(message, "timeout")

\* answers[a + 1] is what call number a of fn() returns or throws; the value
\* is the response fetchWithRetry returns (ok) or the error it throws
RECURSIVE fetchWithRetryFrom(_, _)
fetchWithRetryFrom(answers, attempt) ==
    LET r == answers[attempt + 1]
    IN IF r.ok THEN r
       ELSE IF ~isRetryable(r.error) \/ attempt = MAX_RETRIES - 1 THEN r
       ELSE fetchWithRetryFrom(answers, attempt + 1)

fetchWithRetry(answers) == fetchWithRetryFrom(answers, 0)

TeAnswers == [1..MAX_RETRIES -> TeResponses]

\* what fetchWithRetry can return or throw, over all answers of TE
FetchOutcomes == {fetchWithRetry(answers) : answers \in TeAnswers}

(***************************************************************************)
(* Rows of the store.                                                      *)
(***************************************************************************)
\* poller_runs: no row for the hour bucket
NoRun ==
    [status |-> "absent", started_at |-> NULL, finished_at |-> NULL,
     events_total |-> NULL, events_processed |-> NULL,
     events_succeeded |-> NULL, events_failed |-> NULL,
     error_sample |-> "null", skipped_count |-> NULL,
     retention_error |-> "null"]

\* the row the INSERT of the handler creates: batch_size is BATCH_SIZE in every
\* row and is left out; started_at is the column default now(); the nullable
\* columns the record does not name are null; skipped_count and retention_error
\* are debug.skipped_count and debug.retention.error
newPollerRunRecord(nowT) ==
    [NoRun EXCEPT !.status = "started", !.started_at = nowT,
                  !.events_processed = 0]

NoHourly ==
    [listing_count |-> NULL, min_price |-> NULL, avg_price |-> NULL,
     max_price |-> NULL]

NoDaily ==
    [samples |-> NULL, min_price |-> NULL, avg_price |-> NULL,
     max_price |-> NULL]

NoRunEvent ==
    [status |-> "absent", listing_count |-> NULL, min_price |-> NULL,
     avg_price |-> NULL, max_price |-> NULL, error |-> "null"]

NoResult ==
    [te_event_id |-> 0, status |-> "none", listing_count |-> NULL,
     min_price |-> NULL, avg_price |-> NULL, max_price |-> NULL,
     error |-> "null"]

NoResponse ==
    [http |-> 0, status |-> "none", reason |-> "null", error |-> "null",
     events_total |-> NULL, events_processed |-> NULL,
     events_succeeded |-> NULL, events_failed |-> NULL,
     events_skipped |-> NULL]

(***************************************************************************)
(* The state.                                                              *)
(***************************************************************************)
VARIABLES
    clock,               \* the wall clock, in minutes
    events,              \* table events: te_event_id -> row
    poller_runs,         \* table poller_runs: hour_bucket -> row or NoRun
    event_price_hourly,  \* <<te_event_id, captured_at_hour>> -> row or NoHourly
    poller_run_events,   \* <<hour_bucket, te_event_id>> -> row or NoRunEvent
    inv,                 \* the invocations of the handler: their local state
    dbErrors,            \* how many database calls have returned an error
    call,                \* the call of a function under study: its arguments,
                         \* how far it is and what it returned
    event_price_daily    \* <<te_event_id, date>> -> row or NoDaily

vars ==
    <<clock, events, poller_runs, event_price_hourly, poller_run_events, inv,
      dbErrors, call, event_price_daily>>

\* no function is under study
NoCall == [fn |-> "none"]

(***************************************************************************)
(* The local state of an invocation.  pc is the awaited call it is at;     *)
(* stage[e] is where processEvent(e) is.  The fields after "response" are  *)
(* history: how the lock was obtained and what the invocation did          *)
(* (teAnswered: the events TE returned listings for; teListings[e]: these  *)
(* listings).                                                              *)
(***************************************************************************)
IdleInvocation ==
    [pc |-> "idle", now |-> NULL, existingFinishedAt |-> NULL,
     rows |-> <<>>, events |-> <<>>, i |-> 0, results |-> <<>>,
     stage |-> [e \in EventIds |-> "idle"],
     res |-> [e \in EventIds |-> NoResult],
     errMessage |-> "null", retentionError |-> "null",
     response |-> NoResponse,
     acquired |-> "none", insertConflict |-> FALSE, lockDbError |-> FALSE,
     reclaimedFrom |-> NULL, reclaimedAt |-> NULL,
     teCalled |-> {}, teAnswered |-> {},
     teListings |-> [e \in EventIds |-> <<>>],
     hourlyWritten |-> {},
     runEventWritten |-> [e \in EventIds |-> "none"],
     runEventLogError |-> {}]

hourBucket(i) == truncateToHourUTC(inv[i].now)

\* the events of the batch that starts at index i0 of the event list
BatchAt(evs, i0) ==
    {evs[k] : k \in (i0 + 1)..Min2(i0 + BATCH_SIZE, Len(evs))}

(***************************************************************************)
(* Stop-check of the handler (index.ts:668-675).                           *)
(***************************************************************************)
\* a faulty stop-check that lets an event ending exactly now through
StopCheckNotStrict(event, nowMs) ==
    IF ~event.polling_enabled THEN FALSE
    ELSE IF event.ended_at # NULL THEN FALSE
    ELSE IF event.ends_at = NULL THEN TRUE
    ELSE IF event.ends_at = UNPARSEABLE THEN TRUE
    ELSE event.ends_at >= nowMs

StopCheck(event, nowMs) ==
    IF ~event.polling_enabled THEN FALSE
    ELSE IF event.ended_at # NULL THEN FALSE
    ELSE IF event.ends_at = NULL THEN TRUE
    ELSE IF event.ends_at = UNPARSEABLE THEN TRUE
    ELSE event.ends_at > nowMs

(***************************************************************************)
(* Stale-lock recovery (index.ts:604-632).                                 *)
(***************************************************************************)
\* the row filter of the conditional UPDATE
RecoverMatches(row, staleCutoff) ==
    /\ row.status # "absent"
    /\ row.finished_at = NULL
    /\ row.started_at < staleCutoff

\* a faulty reclaim that leaves started_at as it was
ReclaimUpdateKeepsStart(row, nowT) ==
    [row EXCEPT !.status = "failed", !.error_sample = "stale_lock_timeout",
                !.events_processed = 0]

\* the columns the conditional UPDATE sets
ReclaimUpdate(row, nowT) ==
    [row EXCEPT !.status = "failed", !.error_sample = "stale_lock_timeout",
                !.started_at = nowT, !.events_processed = 0]

(***************************************************************************)
(* Final status of a run (index.ts:799-806).                               *)
(***************************************************************************)
\* a faulty classification that knows no partial run
FinalStatusNoPartial(eventsSucceeded, eventsFailed) ==
    IF eventsFailed = 0 THEN "succeeded" ELSE "failed"

FinalStatus(eventsSucceeded, eventsFailed) ==
    IF eventsFailed = 0 THEN "succeeded"
    ELSE IF eventsSucceeded > 0 THEN "partial"
    ELSE "failed"

\* results.find((r) => r.error)?.error ?? null
FirstErrorMessage(results) ==
    LET withError == {k \in 1..Len(results) : results[k].error # "null"}
    IN IF withError = {} THEN "null"
       ELSE results[CHOOSE k \in withError : \A m \in withError : k <= m].error

(***************************************************************************)
(* applyEndedEventHourlyRetention (index.ts:144-209): the hourly rows left *)
(* after the DELETE.  An ends_at that is no timestamp is not before now.   *)
(***************************************************************************)
getHourlyRetentionDaysAfterEnd == RetentionDaysDefault

EndedIds(evTable, nowT) ==
    {e \in EventIds : evTable[e].ended_at # NULL}
    \cup {e \in EventIds : /\ evTable[e].ended_at = NULL
                           /\ evTable[e].ends_at # NULL
                           /\ evTable[e].ends_at # UNPARSEABLE
                           /\ evTable[e].ends_at < nowT}

\* a DELETE that takes the rows of the cutoff hour as well
applyRetentionThroughCutoff(hourly, evTable, nowT) ==
    LET cutoff == nowT - getHourlyRetentionDaysAfterEnd * DayMinutes
        endedIds == EndedIds(evTable, nowT)
    IN [k \in DOMAIN hourly |->
           IF k[1] \in endedIds /\ k[2] <= cutoff THEN NoHourly ELSE hourly[k]]

applyEndedEventHourlyRetention(hourly, evTable, nowT) ==
    LET cutoff == nowT - getHourlyRetentionDaysAfterEnd * DayMinutes
        endedIds == EndedIds(evTable, nowT)
    IN [k \in DOMAIN hourly |->
           IF k[1] \in endedIds /\ k[2] < cutoff THEN NoHourly ELSE hourly[k]]

\* getHourlyRetentionDaysAfterEnd() for a value raw of the environment
\* variable HOURLY_RETENTION_DAYS_AFTER_END, "null" for an unset one
RetentionDaysOf(raw) ==
    IF raw \in {"null", ""} THEN RetentionDaysDefault
    ELSE IF ~IsFinite(ParseInt(raw)) \/ ParseInt(raw) < 0
    THEN RetentionDaysDefault
    ELSE ParseInt(raw)

\* the DELETE of applyEndedEventHourlyRetention for a horizon of days
applyRetentionOfDays(hourly, evTable, nowT, days) ==
    LET cutoff == nowT - days * DayMinutes
        endedIds == EndedIds(evTable, nowT)
    IN [k \in DOMAIN hourly |->
           IF k[1] \in endedIds /\ k[2] < cutoff THEN NoHourly ELSE hourly[k]]

\* rollup_hourly_to_daily(), the procedure of the store: the daily row of
\* every event and day that has hourly rows with prices is the summary of
\* these rows
RollupHours(hourly, e, d) ==
    {h \in HourlyHours : /\ h \div DayMinutes = d
                         /\ hourly[<<e, h>>] # NoHourly
                         /\ hourly[<<e, h>>].min_price # NULL}

RollupRow(hourly, e, d) ==
    LET hs == SortedSeq(RollupHours(hourly, e, d))
    IN [samples |-> Len(hs),
        min_price |-> hourly[<<e, hs[1]>>].min_price,
        avg_price |->
            SumSeq([k \in 1..Len(hs) |-> hourly[<<e, hs[k]>>].avg_price])
                \div Len(hs),
        max_price |-> hourly[<<e, hs[Len(hs)]>>].max_price]

rollup_hourly_to_daily(hourly, daily) ==
    [k \in DOMAIN daily |->
        IF RollupHours(hourly, k[1], k[2]) # {}
        THEN RollupRow(hourly, k[1], k[2]) ELSE daily[k]]

NoRetentionResult ==
    [retentionDays |-> NULL, cutoff |-> NULL, endedEventCount |-> NULL,
     deletedHourlyRows |-> NULL]

\* a result that counts the keys the DELETE filters on, with or without a row
RetentionResultCountsKeys(hourly, evTable, nowT) ==
    LET cutoff == nowT - getHourlyRetentionDaysAfterEnd * DayMinutes
        endedIds == EndedIds(evTable, nowT)
    IN [retentionDays |-> getHourlyRetentionDaysAfterEnd,
        cutoff |-> cutoff,
        endedEventCount |-> Cardinality(endedIds),
        deletedHourlyRows |->
            Cardinality({k \in DOMAIN hourly :
                            k[1] \in endedIds /\ k[2] < cutoff})]

\* the RetentionResult the function returns; deletedRows are the rows the
\* DELETE ... RETURNING te_event_id returns
RetentionResult(hourly, evTable, nowT) ==
    LET cutoff == nowT - getHourlyRetentionDaysAfterEnd * DayMinutes
        endedIds == EndedIds(evTable, nowT)
        deletedRows == {k \in DOMAIN hourly :
                           /\ hourly[k] # NoHourly
                           /\ k[1] \in endedIds
                           /\ k[2] < cutoff}
    IN [retentionDays |-> getHourlyRetentionDaysAfterEnd,
        cutoff |-> cutoff,
        endedEventCount |-> Cardinality(endedIds),
        deletedHourlyRows |->
            IF endedIds = {} THEN 0 ELSE Cardinality(deletedRows)]

(***************************************************************************)
(* Building blocks of the handler's steps.                                 *)
(***************************************************************************)
\* UPDATE poller_runs SET ... WHERE hour_bucket = h; ok: the call returned no
\* error.  A hour bucket without a row matches no row.
UpdateRun(runs, h, newRow, ok) ==
    IF ok /\ runs[h].status # "absent" THEN [runs EXCEPT ![h] = newRow]
    ELSE runs

\* the outcome of a database call: ok, or one more error
Db(ok) ==
    IF ok THEN UNCHANGED dbErrors
    ELSE dbErrors < MaxDbErrors /\ dbErrors' = dbErrors + 1

\* the throw of the try block: the handler goes to its catch
Throw(L, message) ==
    [L EXCEPT !.pc = "catch", !.errMessage = message]

\* a 200 response {status: skipped, reason}
Skipped(L, reason) ==
    [L EXCEPT !.pc = "done",
              !.response = [NoResponse EXCEPT !.http = 200,
                                              !.status = "skipped",
                                              !.reason = reason]]

\* a processBatch that starts every remaining event at once
StartBatchUnbounded(L, i0) ==
    [L EXCEPT !.pc = "batch", !.i = i0,
              !.stage = [e \in EventIds |->
                            IF \E k \in (i0 + 1)..Len(L.events) :
                                  L.events[k] = e
                            THEN "te" ELSE L.stage[e]],
              !.teCalled = @ \cup {L.events[k] : k \in (i0 + 1)..Len(L.events)}]

\* processBatch starts a batch: batch.map(processEvent) issues the TE call of
\* every event of the batch before the first await returns
StartBatch(L, i0) ==
    [L EXCEPT !.pc = "batch", !.i = i0,
              !.stage = [e \in EventIds |->
                            IF e \in BatchAt(L.events, i0) THEN "te"
                            ELSE L.stage[e]],
              !.teCalled = @ \cup BatchAt(L.events, i0)]

\* the result processEvent returns
Result(e, status, agg, error) ==
    [te_event_id |-> e, status |-> status,
     listing_count |-> agg.listing_count, min_price |-> agg.min_price,
     avg_price |-> agg.avg_price, max_price |-> agg.max_price,
     error |-> error]

\* the row written for zero eligible listings
ZeroAggregate == [NullAggregate EXCEPT !.listing_count = 0]

\* the result of processEvent's catch block
FailedResult(e, message) == Result(e, "failed", NullAggregate, message)

\* a faulty result that reports every aggregate as succeeded
AggregateResultAlwaysSucceeded(e, aggregates) ==
    Result(e, "succeeded", aggregates, "null")

\* the result and the hourly row once aggregatePrices has answered
AggregateResult(e, aggregates) ==
    IF aggregates = NullAggregate
    THEN Result(e, "skipped", ZeroAggregate, "no_eligible_listings")
    ELSE Result(e, "succeeded", aggregates, "null")

HourlyRowOf(result) ==
    [listing_count |-> result.listing_count, min_price |-> result.min_price,
     avg_price |-> result.avg_price, max_price |-> result.max_price]

RunEventRowOf(result) ==
    [status |-> result.status, listing_count |-> result.listing_count,
     min_price |-> result.min_price, avg_price |-> result.avg_price,
     max_price |-> result.max_price, error |-> result.error]

\* a faulty collection that stops at the first failed event of the batch
CollectUntilFailed(results, evs, i0, res) ==
    LET batch == [k \in 1..(Min2(i0 + BATCH_SIZE, Len(evs)) - i0) |->
                     res[evs[i0 + k]]]
        failed == {k \in 1..Len(batch) : batch[k].status = "failed"}
        upTo == IF failed = {} THEN Len(batch)
                ELSE CHOOSE k \in failed : \A m \in failed : k <= m
    IN results \o SubSeq(batch, 1, upTo)

\* Promise.allSettled of the batch, in the order of the batch
CollectResults(results, evs, i0, res) ==
    results \o [k \in 1..(Min2(i0 + BATCH_SIZE, Len(evs)) - i0) |->
                   res[evs[i0 + k]]]

(***************************************************************************)
(* Step 0: the handler starts; now and hourBucket are fixed here.          *)
(***************************************************************************)
Start(i) ==
    /\ inv[i].pc = "idle"
    /\ inv' = [inv EXCEPT ![i] = [@ EXCEPT !.pc = "insert", !.now = clock]]
    /\ UNCHANGED <<call, event_price_daily, clock, events, poller_runs, event_price_hourly,
                   poller_run_events, dbErrors>>

(***************************************************************************)
(* Step 1: acquire the hourly lock by INSERT (index.ts:554-570).           *)
(***************************************************************************)
\* a faulty INSERT that never reports a conflict
NoUniqueViolation(runs, h) == FALSE

\* the unique key on hour_bucket rejects the INSERT (error code 23505)
UniqueViolation(runs, h) == runs[h].status # "absent"

InsertLock(i, ok) ==
    LET L == inv[i]
        h == hourBucket(i)
    IN /\ L.pc = "insert"
       /\ Db(ok)
       /\ IF ~ok
          THEN /\ inv' = [inv EXCEPT ![i] =
                             [Throw(L, "Failed to acquire lock: db_error")
                                EXCEPT !.lockDbError = TRUE]]
               /\ UNCHANGED poller_runs
          ELSE IF UniqueViolation(poller_runs, h)
          THEN
               /\ inv' = [inv EXCEPT ![i] =
                             [L EXCEPT !.pc = "read_existing",
                                       !.insertConflict = TRUE]]
               /\ UNCHANGED poller_runs
          ELSE /\ poller_runs' =
                      [poller_runs EXCEPT ![h] = newPollerRunRecord(clock)]
               /\ inv' = [inv EXCEPT ![i] =
                             [L EXCEPT !.pc = "fetch_events",
                                       !.acquired = "insert"]]
       /\ UNCHANGED <<call, event_price_daily, clock, events, event_price_hourly, poller_run_events>>

(***************************************************************************)
(* The row exists: read it (index.ts:573-600).                             *)
(***************************************************************************)
ReadExisting(i, ok) ==
    LET L == inv[i]
        existingRun == poller_runs[hourBucket(i)]
    IN /\ L.pc = "read_existing"
       /\ Db(ok)
       /\ inv' = [inv EXCEPT ![i] =
            IF ~ok
            THEN [Throw(L, "Failed to read existing run row: db_error")
                    EXCEPT !.lockDbError = TRUE]
            ELSE IF existingRun.status = "absent"
            THEN Throw(L, "Lock conflict but run row missing")
            ELSE IF existingRun.finished_at # NULL
            THEN Skipped([L EXCEPT !.existingFinishedAt =
                                       existingRun.finished_at],
                         "already_ran")
            ELSE [L EXCEPT !.pc = "recover"]]
       /\ UNCHANGED <<call, event_price_daily, clock, events, poller_runs, event_price_hourly,
                      poller_run_events>>

(***************************************************************************)
(* Stale-lock recovery: one conditional UPDATE (index.ts:604-647).         *)
(***************************************************************************)
Recover(i, ok) ==
    LET L == inv[i]
        h == hourBucket(i)
        staleCutoff == clock - StaleLockMinutes
        didRecoverStaleLock == RecoverMatches(poller_runs[h], staleCutoff)
    IN /\ L.pc = "recover"
       /\ Db(ok)
       /\ IF ~ok
          THEN /\ inv' = [inv EXCEPT ![i] =
                             [Throw(L, "Failed stale-lock recovery: db_error")
                                EXCEPT !.lockDbError = TRUE]]
               /\ UNCHANGED poller_runs
          ELSE IF didRecoverStaleLock
          THEN /\ poller_runs' =
                      [poller_runs EXCEPT ![h] = ReclaimUpdate(@, clock)]
               /\ inv' = [inv EXCEPT ![i] =
                             [L EXCEPT !.pc = "fetch_events",
                                       !.acquired = "reclaim",
                                       !.reclaimedFrom =
                                           poller_runs[h].started_at,
                                       !.reclaimedAt = clock]]
          ELSE /\ inv' = [inv EXCEPT ![i] = Skipped(L, "already_running")]
               /\ UNCHANGED poller_runs
       /\ UNCHANGED <<call, event_price_daily, clock, events, event_price_hourly, poller_run_events>>

(***************************************************************************)
(* Step 2: read the events and apply the stop-check (index.ts:653-679).    *)
(***************************************************************************)
FetchEvents(i, ok) ==
    LET L == inv[i]
    IN /\ L.pc = "fetch_events"
       /\ Db(ok)
       /\ inv' = [inv EXCEPT ![i] =
            IF ~ok THEN Throw(L, "Failed to fetch events: db_error")
            ELSE [L EXCEPT !.pc = "retention",
                           !.rows = events,
                           !.events = SortedSeq({e \in EventIds :
                                           StopCheck(events[e], L.now)})]]
       /\ UNCHANGED <<call, event_price_daily, clock, events, poller_runs, event_price_hourly,
                      poller_run_events>>

(***************************************************************************)
(* Step 2.5: retention cleanup, non-fatal (index.ts:688-727).  Its two     *)
(* SELECTs and its DELETE are one step.                                    *)
(***************************************************************************)
\* a handler for which a failed retention is an error of the run
RetentionAborts(i, ok) ==
    LET L == inv[i]
    IN /\ L.pc = "retention"
       /\ Db(ok)
       /\ IF ok
          THEN /\ event_price_hourly' =
                    applyEndedEventHourlyRetention(event_price_hourly,
                                                   events, L.now)
               /\ inv' = [inv EXCEPT ![i] = [L EXCEPT !.pc = "events_total"]]
          ELSE /\ UNCHANGED event_price_hourly
               /\ inv' = [inv EXCEPT ![i] =
                             Throw([L EXCEPT !.retentionError =
                                                 "Retention query failed"],
                                   "Retention query failed")]
       /\ UNCHANGED <<call, event_price_daily, clock, events, poller_runs, poller_run_events>>

Retention(i, ok) ==
    LET L == inv[i]
    IN /\ L.pc = "retention"
       /\ Db(ok)
       /\ IF ok
          THEN /\ event_price_hourly' =
                    applyEndedEventHourlyRetention(event_price_hourly,
                                                   events, L.now)
               /\ inv' = [inv EXCEPT ![i] = [L EXCEPT !.pc = "events_total"]]
          ELSE /\ UNCHANGED event_price_hourly
               /\ inv' = [inv EXCEPT ![i] =
                             [L EXCEPT !.pc = "events_total",
                                       !.retentionError =
                                           "Retention query failed"]]
       /\ UNCHANGED <<call, event_price_daily, clock, events, poller_runs, poller_run_events>>

(***************************************************************************)
(* UPDATE events_total; an error is logged only (index.ts:729-742).  With  *)
(* events to poll, processBatch starts its first batch (index.ts:788).     *)
(***************************************************************************)
UpdateEventsTotal(i, ok) ==
    LET L == inv[i]
        h == hourBucket(i)
    IN /\ L.pc = "events_total"
       /\ Db(ok)
       /\ poller_runs' =
            UpdateRun(poller_runs, h,
                      [poller_runs[h] EXCEPT !.events_total = Len(L.events)],
                      ok)
       /\ inv' = [inv EXCEPT ![i] =
            IF Len(L.events) = 0 THEN [L EXCEPT !.pc = "finish_empty"]
            ELSE StartBatch(L, 0)]
       /\ UNCHANGED <<call, event_price_daily, clock, events, event_price_hourly, poller_run_events>>

(***************************************************************************)
(* No events: mark the run succeeded and respond (index.ts:744-783).       *)
(***************************************************************************)
FinishNoEvents(i, ok) ==
    LET L == inv[i]
        h == hourBucket(i)
    IN /\ L.pc = "finish_empty"
       /\ Db(ok)
       /\ poller_runs' =
            UpdateRun(poller_runs, h,
                      [poller_runs[h] EXCEPT !.status = "succeeded",
                                             !.finished_at = clock,
                                             !.events_succeeded = 0,
                                             !.events_failed = 0,
                                             !.skipped_count = 0,
                                             !.retention_error =
                                                 L.retentionError],
                      ok)
       /\ inv' = [inv EXCEPT ![i] =
            [L EXCEPT !.pc = "done",
                      !.response = [NoResponse EXCEPT !.http = 200,
                                                      !.status = "succeeded",
                                                      !.events_total = 0]]]
       /\ UNCHANGED <<call, event_price_daily, clock, events, event_price_hourly, poller_run_events>>

(***************************************************************************)
(* processEvent (index.ts:215-441), one step per awaited call.             *)
(***************************************************************************)
\* fetchWithRetry(teClient.get("/listings")) settles, then aggregatePrices.
\* The read of the previous hour's row only logs and is part of this step.
TeFetch(i, e, r) ==
    LET L == inv[i]
    IN /\ L.pc = "batch"
       /\ L.stage[e] = "te"
       /\ inv' = [inv EXCEPT ![i] =
            IF r.ok
            THEN [L EXCEPT !.stage[e] = "hourly",
                           !.teAnswered = @ \cup {e},
                           !.teListings[e] = r.listings,
                           !.res[e] = AggregateResult(e,
                                          aggregatePrices(r.listings))]
            ELSE [L EXCEPT !.stage[e] = "log",
                           !.res[e] = FailedResult(e, r.error)]]
       /\ UNCHANGED <<call, event_price_daily, clock, events, poller_runs, event_price_hourly,
                      poller_run_events, dbErrors>>

\* a faulty upsert that stores the row although it reports an error
UpsertHourlyRowAlways(hourly, key, row, ok) == [hourly EXCEPT ![key] = row]

\* a faulty upsert that keeps the row the key already has
UpsertHourlyRowKeepsExisting(hourly, key, row, ok) ==
    IF ok /\ hourly[key] = NoHourly THEN [hourly EXCEPT ![key] = row]
    ELSE hourly

\* the upsert on (te_event_id, captured_at_hour)
UpsertHourlyRow(hourly, key, row, ok) ==
    IF ok THEN [hourly EXCEPT ![key] = row] ELSE hourly

\* the upsert of event_price_hourly; its error is thrown into the catch
UpsertHourly(i, e, ok) ==
    LET L == inv[i]
        h == hourBucket(i)
    IN /\ L.pc = "batch"
       /\ Db(ok)
       /\ L.stage[e] = "hourly"
       /\ event_price_hourly' =
            UpsertHourlyRow(event_price_hourly, <<e, h>>,
                            HourlyRowOf(L.res[e]), ok)
       /\ inv' = [inv EXCEPT ![i] =
            IF ok
            THEN [L EXCEPT !.stage[e] = "log",
                           !.hourlyWritten = @ \cup {e}]
            ELSE [L EXCEPT !.stage[e] = "log",
                           !.res[e] = FailedResult(e,
                               "Failed to upsert hourly data: db_error")]]
       /\ UNCHANGED <<call, event_price_daily, clock, events, poller_runs, poller_run_events>>

\* the upsert on (hour_bucket, te_event_id); its error is logged only
UpsertRunEventRow(runEvents, key, row, ok) ==
    IF ok THEN [runEvents EXCEPT ![key] = row] ELSE runEvents

\* the upsert of poller_run_events, then processEvent returns its result
LogRunEvent(i, e, ok) ==
    LET L == inv[i]
        h == hourBucket(i)
    IN /\ L.pc = "batch"
       /\ Db(ok)
       /\ L.stage[e] = "log"
       /\ poller_run_events' =
            UpsertRunEventRow(poller_run_events, <<h, e>>,
                              RunEventRowOf(L.res[e]), ok)
       /\ inv' = [inv EXCEPT ![i] =
            IF ok
            THEN [L EXCEPT !.stage[e] = "done",
                           !.runEventWritten[e] = L.res[e].status]
            ELSE [L EXCEPT !.stage[e] = "done",
                           !.runEventLogError = @ \cup {e}]]
       /\ UNCHANGED <<call, event_price_daily, clock, events, poller_runs, event_price_hourly>>

(***************************************************************************)
(* processBatch (index.ts:447-507): the batch has settled; collect its     *)
(* results, UPDATE events_processed (an error is logged only), and start   *)
(* the next batch or leave the loop.                                       *)
(***************************************************************************)
BatchUpdate(i, ok) ==
    LET L == inv[i]
        h == hourBucket(i)
        results == CollectResults(L.results, L.events, L.i, L.res)
        next == L.i + BATCH_SIZE
        L1 == [L EXCEPT !.results = results]
    IN /\ L.pc = "batch"
       /\ Db(ok)
       /\ \A e \in BatchAt(L.events, L.i) : L.stage[e] = "done"
       /\ poller_runs' =
            UpdateRun(poller_runs, h,
                      [poller_runs[h] EXCEPT !.events_processed = Len(results)],
                      ok)
       /\ inv' = [inv EXCEPT ![i] =
            IF next < Len(L.events) THEN StartBatch(L1, next)
            ELSE [L1 EXCEPT !.pc = "finalize"]]
       /\ UNCHANGED <<call, event_price_daily, clock, events, event_price_hourly, poller_run_events>>

(***************************************************************************)
(* Steps 4 and 5: final statistics, final UPDATE, response                 *)
(* (index.ts:790-870).                                                     *)
(***************************************************************************)
Finalize(i, ok) ==
    LET L == inv[i]
        h == hourBucket(i)
        eventsSucceeded == CountStatus(L.results, "succeeded")
        eventsFailed == CountStatus(L.results, "failed")
        eventsSkipped == CountStatus(L.results, "skipped")
        finalStatus == FinalStatus(eventsSucceeded, eventsFailed)
    IN /\ L.pc = "finalize"
       /\ Db(ok)
       /\ poller_runs' =
            UpdateRun(poller_runs, h,
                      [poller_runs[h] EXCEPT
                          !.status = finalStatus,
                          !.finished_at = clock,
                          !.events_processed = Len(L.results),
                          !.events_succeeded = eventsSucceeded,
                          !.events_failed = eventsFailed,
                          !.error_sample = FirstErrorMessage(L.results),
                          !.skipped_count = eventsSkipped,
                          !.retention_error = L.retentionError],
                      ok)
       /\ inv' = [inv EXCEPT ![i] =
            [L EXCEPT !.pc = "done",
                      !.response =
                          [NoResponse EXCEPT
                              !.http = 200,
                              !.status = finalStatus,
                              !.events_total = Len(L.events),
                              !.events_processed = Len(L.results),
                              !.events_succeeded = eventsSucceeded,
                              !.events_failed = eventsFailed,
                              !.events_skipped = eventsSkipped]]]
       /\ UNCHANGED <<call, event_price_daily, clock, events, event_price_hourly, poller_run_events>>

(***************************************************************************)
(* The catch of the handler: best-effort UPDATE of the hour's row to       *)
(* failed, then a 500 response (index.ts:871-916).                         *)
(***************************************************************************)
CatchUpdate(i, ok) ==
    LET L == inv[i]
        h == hourBucket(i)
    IN /\ L.pc = "catch"
       /\ Db(ok)
       /\ poller_runs' =
            UpdateRun(poller_runs, h,
                      [poller_runs[h] EXCEPT !.status = "failed",
                                             !.finished_at = clock,
                                             !.error_sample = L.errMessage],
                      ok)
       /\ inv' = [inv EXCEPT ![i] =
            [L EXCEPT !.pc = "done",
                      !.response = [NoResponse EXCEPT !.http = 500,
                                                      !.status = "failed",
                                                      !.error = L.errMessage]]]
       /\ UNCHANGED <<call, event_price_daily, clock, events, event_price_hourly, poller_run_events>>

(***************************************************************************)
(* The environment.                                                        *)
(***************************************************************************)
\* the platform kills an invocation (deadline, crash) between two steps; its
\* local variables are gone, the history of what it did is kept
Kill(i) ==
    /\ inv[i].pc \notin {"idle", "done", "killed"}
    /\ inv' = [inv EXCEPT ![i] =
                  [@ EXCEPT !.pc = "killed",
                            !.rows = <<>>, !.events = <<>>, !.i = 0,
                            !.results = <<>>,
                            !.stage = [e \in EventIds |-> "idle"],
                            !.res = [e \in EventIds |-> NoResult],
                            !.errMessage = "null",
                            !.retentionError = "null"]]
    /\ UNCHANGED <<call, event_price_daily, clock, events, poller_runs, event_price_hourly,
                   poller_run_events, dbErrors>>

Tick ==
    /\ clock + TickMinutes <= MaxClock
    /\ clock' = clock + TickMinutes
    /\ UNCHANGED <<call, event_price_daily, events, poller_runs, event_price_hourly, poller_run_events,
                   inv, dbErrors>>

\* an operator (or the metadata refresher) turns polling of an event off
DisablePolling(e) ==
    /\ events[e].polling_enabled
    /\ events' = [events EXCEPT ![e].polling_enabled = FALSE]
    /\ UNCHANGED <<call, event_price_daily, clock, poller_runs, event_price_hourly, poller_run_events,
                   inv, dbErrors>>

(***************************************************************************)
(* Initial states.                                                         *)
(***************************************************************************)
EventRow(enabled, endsAt, endedAt) ==
    [polling_enabled |-> enabled, ends_at |-> endsAt, ended_at |-> endedAt]

\* every event has one hourly row older than the retention horizon
InitHourly ==
    [k \in EventIds \X HourlyHours |->
        IF k[2] = OldHour
        THEN [listing_count |-> 1, min_price |-> 10000, avg_price |-> 10000,
              max_price |-> 10000]
        ELSE NoHourly]

\* the day of the old hourly rows has its daily row
InitDaily ==
    [k \in EventIds \X DailyDates |->
        IF k[2] = OldHour \div DayMinutes
        THEN [samples |-> 1, min_price |-> 10000, avg_price |-> 10000,
              max_price |-> 10000]
        ELSE NoDaily]

InitStore ==
    /\ clock = 0
    /\ event_price_daily = InitDaily
    /\ poller_runs = [h \in HourBuckets |-> NoRun]
    /\ event_price_hourly = InitHourly
    /\ poller_run_events = [k \in HourBuckets \X EventIds |-> NoRunEvent]
    /\ inv = [i \in Invocations |-> IdleInvocation]
    /\ dbErrors = 0

\* one step of invocation i; lockDb, runDb: the outcomes (TRUE: no error) of
\* the database calls of the lock protocol and of the run; te: what the TE
\* fetch can settle to
Step(i, lockDb, runDb, te) ==
    \/ Start(i)
    \/ \E ok \in lockDb : InsertLock(i, ok)
    \/ \E ok \in lockDb : ReadExisting(i, ok)
    \/ \E ok \in lockDb : Recover(i, ok)
    \/ \E ok \in lockDb : FetchEvents(i, ok)
    \/ \E ok \in runDb : Retention(i, ok)
    \/ \E ok \in runDb : UpdateEventsTotal(i, ok)
    \/ \E ok \in runDb : FinishNoEvents(i, ok)
    \/ \E e \in EventIds, r \in te : TeFetch(i, e, r)
    \/ \E e \in EventIds, ok \in runDb : UpsertHourly(i, e, ok)
    \/ \E e \in EventIds, ok \in runDb : LogRunEvent(i, e, ok)
    \/ \E ok \in runDb : BatchUpdate(i, ok)
    \/ \E ok \in runDb : Finalize(i, ok)
    \/ \E ok \in lockDb : CatchUpdate(i, ok)

(***************************************************************************)
(* Spec: the lock protocol.  Several invocations race for the hour         *)
(* buckets; every database call of the lock protocol may fail; the run     *)
(* itself meets no database error and TE answers with one payload or one   *)
(* permanent error.                                                        *)
(***************************************************************************)
\* the events table with the row kinds in turn, starting with kind k
EventTable(kinds, k) ==
    [e \in EventIds |-> kinds[((e + k - 2) % Len(kinds)) + 1]]

LockEventKinds ==
    << EventRow(TRUE, NULL, NULL),
       EventRow(FALSE, MaxClock + HourMinutes, NULL),
       EventRow(TRUE, 0, 0) >>

Init ==
    /\ InitStore
    /\ call = NoCall
    /\ events = EventTable(LockEventKinds, 1)

LockTe ==
    {r \in FetchOutcomes :
        \/ r.ok /\ Len(r.listings) = 1
        \/ ~r.ok /\ r.error = "TE API Error: 404"}

Next ==
    \/ \E i \in Invocations : Step(i, BOOLEAN, {TRUE}, LockTe)
    \/ \E i \in Invocations : Kill(i)
    \/ Tick
    \/ DisablePolling(1)

Spec == Init /\ [][Next]_vars

(***************************************************************************)
(* SpecStale: the same invocations, started on the row an earlier          *)
(* invocation of the first hour left behind when it was killed.            *)
(***************************************************************************)
InitStale ==
    /\ clock = 0
    /\ poller_runs = [h \in HourBuckets |->
                         IF h = 0 THEN newPollerRunRecord(0) ELSE NoRun]
    /\ event_price_hourly = InitHourly
    /\ poller_run_events = [k \in HourBuckets \X EventIds |-> NoRunEvent]
    /\ inv = [i \in Invocations |-> IdleInvocation]
    /\ dbErrors = 0
    /\ call = NoCall
    /\ event_price_daily = InitDaily
    /\ events = EventTable(LockEventKinds, 1)

SpecStale == InitStale /\ [][Next]_vars

(***************************************************************************)
(* SpecRerun: runs that poll an hour again.  The killed run of the first   *)
(* hour has left its unfinished row and an hourly row of event 1; TE       *)
(* answers with one listing, with none, or with a permanent error.         *)
(***************************************************************************)
KilledRunHourlyRow ==
    [listing_count |-> 1, min_price |-> 10000, avg_price |-> 10000,
     max_price |-> 10000]

InitRerun ==
    /\ clock = 0
    /\ poller_runs = [h \in HourBuckets |->
                         IF h = 0 THEN newPollerRunRecord(0) ELSE NoRun]
    /\ event_price_hourly =
          [InitHourly EXCEPT ![<<1, 0>>] = KilledRunHourlyRow]
    /\ poller_run_events = [k \in HourBuckets \X EventIds |-> NoRunEvent]
    /\ inv = [i \in Invocations |-> IdleInvocation]
    /\ dbErrors = 0
    /\ call = NoCall
    /\ event_price_daily = InitDaily
    /\ events = EventTable(LockEventKinds, 1)

RerunTe ==
    {r \in FetchOutcomes :
        \/ r.ok /\ Len(r.listings) <= 1
        \/ ~r.ok /\ r.error = "TE API Error: 404"}

NextRerun ==
    \/ \E i \in Invocations : Step(i, BOOLEAN, {TRUE}, RerunTe)
    \/ \E i \in Invocations : Kill(i)
    \/ Tick
    \/ DisablePolling(1)

SpecRerun == InitRerun /\ [][NextRerun]_vars

(***************************************************************************)
(* SpecRun: one invocation, every outcome of every call, and an operator   *)
(* who turns polling off while the run is under way.  The run is short:    *)
(* the clock advances before it starts.                                    *)
(***************************************************************************)
RunEventKinds ==
    << EventRow(TRUE, NULL, NULL),
       EventRow(TRUE, 2 * TickMinutes, NULL),
       EventRow(TRUE, UNPARSEABLE, NULL),
       EventRow(FALSE, MaxClock + HourMinutes, NULL),
       EventRow(TRUE, 0, 0),
       EventRow(TRUE, 0, NULL) >>

\* what an earlier invocation of the first hour left in poller_runs: nothing,
\* the row of a run killed while polling, or the row of a finished run
LeftoverRuns ==
    { NoRun,
      [newPollerRunRecord(0) EXCEPT !.events_total = NumEvents],
      [newPollerRunRecord(0) EXCEPT !.status = "succeeded",
                                    !.finished_at = 0,
                                    !.events_total = 0,
                                    !.events_succeeded = 0,
                                    !.events_failed = 0,
                                    !.skipped_count = 0] }

InitRun ==
    /\ clock = 0
    /\ \E leftover \in LeftoverRuns :
          poller_runs = [h \in HourBuckets |-> IF h = 0 THEN leftover ELSE NoRun]
    /\ event_price_hourly = InitHourly
    /\ poller_run_events = [k \in HourBuckets \X EventIds |-> NoRunEvent]
    /\ inv = [i \in Invocations |-> IdleInvocation]
    /\ dbErrors = 0
    /\ call = NoCall
    /\ event_price_daily = InitDaily
    /\ \E k \in 1..Len(RunEventKinds) : events = EventTable(RunEventKinds, k)

NextRun ==
    \/ Step(1, BOOLEAN, BOOLEAN, FetchOutcomes)
    \/ Tick /\ inv[1].pc = "idle"
    \/ DisablePolling(1)

SpecRun == InitRun /\ [][NextRun]_vars

(***************************************************************************)
(* SpecRetry: one call of fetchWithRetry, one pass of its loop per step.   *)
(* TE answers every attempt with one payload or with any of the failures.  *)
(***************************************************************************)
RetryResponses ==
    {[ok |-> TRUE, listings |-> p, error |-> "null"] :
        p \in {q \in TePayloads : Len(q) = 1}}
    \cup {[ok |-> FALSE, listings |-> <<>>, error |-> f.name] :
             f \in TeFailures}

InitRetry ==
    /\ InitStore
    /\ events = EventTable(LockEventKinds, 1)
    /\ \E answers \in [1..MAX_RETRIES -> RetryResponses] :
          call = [fn |-> "fetchWithRetry", answers |-> answers, attempt |-> 0,
                  calls |-> 0, delays |-> <<>>, outcome |-> "pending",
                  value |-> NoResponse]

\* one pass of the for loop: fn() is called; its value is returned, or its
\* error is thrown, or the loop sleeps and goes on
RetryAttempt ==
    /\ call.fn = "fetchWithRetry"
    /\ call.outcome = "pending"
    /\ call.attempt < MAX_RETRIES
    /\ LET r == call.answers[call.attempt + 1]
           c == [call EXCEPT !.calls = @ + 1]
       IN call' =
            IF r.ok
            THEN [c EXCEPT !.outcome = "returned", !.value = r]
            ELSE IF ~isRetryable(r.error) \/ call.attempt = MAX_RETRIES - 1
            THEN [c EXCEPT !.outcome = "thrown", !.value = r]
            ELSE [c EXCEPT !.attempt = @ + 1,
                           !.delays = Append(@, 1000 * (2 ^ call.attempt))]
    /\ UNCHANGED <<clock, events, poller_runs, event_price_hourly,
                   event_price_daily, poller_run_events, inv, dbErrors>>

NextRetry == RetryAttempt

SpecRetry == InitRetry /\ [][NextRetry]_vars

(***************************************************************************)
(* SpecAggregate: one call of aggregatePrices, on one listing of any       *)
(* shape or on up to MaxListings listings of different prices.             *)
(***************************************************************************)
MaxListings == 3

ListingPrices ==
    {NaN, 0, 4, 10004, 10006, 135500, 100000 * PriceUnit - 1,
     100000 * PriceUnit}

AnyListings ==
    { Listing(type, price, qty, splits, pub, notes) :
        type \in {"event", "parking"},
        price \in {NaN, 0, 4, 135500, 100000 * PriceUnit},
        qty \in {QuantityUnit, 2 * QuantityUnit, 2 * QuantityUnit + 1,
                 10000 * QuantityUnit - 1, 10000 * QuantityUnit},
        splits \in {{}, {1}, {2}, {1, 2, 3}},
        pub \in {"null", "", "aisle seats", "Will Be Rejected",
                 "will remain pending"},
        notes \in {"null", "aisle seats", "Will Be Rejected",
                   "not fulfilled"} }

PricedListings ==
    { Listing("event", price, 2 * QuantityUnit, {2}, "null", "null") :
        price \in ListingPrices }

InitAggregate ==
    /\ InitStore
    /\ events = EventTable(LockEventKinds, 1)
    /\ \E listings \in {<<l>> : l \in AnyListings}
                       \cup UNION {[1..n -> PricedListings] :
                                      n \in 0..MaxListings} :
          call = [fn |-> "aggregatePrices", listings |-> listings,
                  returned |-> FALSE, result |-> NullAggregate]

Aggregate ==
    /\ call.fn = "aggregatePrices"
    /\ ~call.returned
    /\ call' = [call EXCEPT !.returned = TRUE,
                            !.result = aggregatePrices(call.listings)]
    /\ UNCHANGED <<clock, events, poller_runs, event_price_hourly,
                   event_price_daily, poller_run_events, inv, dbErrors>>

NextAggregate == Aggregate

SpecAggregate == InitAggregate /\ [][NextAggregate]_vars

(***************************************************************************)
(* SpecRetention: calls of applyEndedEventHourlyRetention with now the     *)
(* clock, on events that have ended, end while the clock advances, or do   *)
(* not end; every event has hourly rows before, at and after the cutoff.   *)
(***************************************************************************)
MaxRetentionRuns == 3

RetentionEventKinds ==
    << EventRow(TRUE, NULL, NULL),
       EventRow(TRUE, 0, 0),
       EventRow(TRUE, TickMinutes, NULL),
       EventRow(TRUE, OldHour, OldHour),
       EventRow(TRUE, MaxClock + HourMinutes, NULL),
       EventRow(FALSE, OldHour - DayMinutes, NULL),
       EventRow(FALSE, MaxClock + HourMinutes, 0) >>

RetentionHourly ==
    [k \in EventIds \X HourlyHours |->
        IF k[2] \in {OldHour, CutoffHour, 0}
        THEN [listing_count |-> 1, min_price |-> 10000, avg_price |-> 10000,
              max_price |-> 10000]
        ELSE NoHourly]

InitRetention ==
    /\ clock = 0
    /\ poller_runs = [h \in HourBuckets |-> NoRun]
    /\ event_price_hourly = RetentionHourly
    /\ event_price_daily = InitDaily
    /\ poller_run_events = [k \in HourBuckets \X EventIds |-> NoRunEvent]
    /\ inv = [i \in Invocations |-> IdleInvocation]
    /\ dbErrors = 0
    /\ \E k \in 1..Len(RetentionEventKinds) :
          events = EventTable(RetentionEventKinds, k)
    /\ call = [fn |-> "applyEndedEventHourlyRetention", runs |-> <<>>]

\* one call of the function with now the clock: it returns its result, or a
\* query fails and it throws with nothing deleted
Retain(ok) ==
    /\ call.fn = "applyEndedEventHourlyRetention"
    /\ Len(call.runs) < MaxRetentionRuns
    /\ Db(ok)
    /\ IF ok
       THEN /\ event_price_hourly' =
                 applyEndedEventHourlyRetention(event_price_hourly, events,
                                                clock)
            /\ call' = [call EXCEPT !.runs =
                           Append(@, [now |-> clock, thrown |-> FALSE,
                                      result |->
                                        RetentionResult(event_price_hourly,
                                                        events, clock)])]
       ELSE /\ UNCHANGED event_price_hourly
            /\ call' = [call EXCEPT !.runs =
                           Append(@, [now |-> clock, thrown |-> TRUE,
                                      result |-> NoRetentionResult])]
    /\ UNCHANGED <<clock, events, poller_runs, event_price_daily,
                   poller_run_events, inv>>

NextRetention ==
    \/ \E ok \in BOOLEAN : Retain(ok)
    \/ Tick

SpecRetention == InitRetention /\ [][NextRetention]_vars

(***************************************************************************)
(* SpecDaily: the retention step of the hourly runs beside the daily job   *)
(* of the store (rollup, then retention), for every value of the           *)
(* environment variable HOURLY_RETENTION_DAYS_AFTER_END.  Every event has  *)
(* the hourly rows of the hours at which it was polled; the rows of the    *)
(* past days are aggregated, those of the current day are not yet.         *)
(***************************************************************************)
DailyEventKinds ==
    << EventRow(TRUE, NULL, NULL),
       EventRow(TRUE, TickMinutes, NULL),
       EventRow(TRUE, OldHour + HourMinutes, OldHour + HourMinutes),
       EventRow(TRUE, 2 * TickMinutes, NULL),
       EventRow(FALSE, MaxClock + HourMinutes, 0) >>

PolledHourly(evTable) ==
    [k \in EventIds \X HourlyHours |->
        IF k[2] <= 0 /\ StopCheck([evTable[k[1]] EXCEPT !.ended_at = NULL],
                                  k[2])
        THEN [listing_count |-> 1, min_price |-> 10000, avg_price |-> 10000,
              max_price |-> 10000]
        ELSE NoHourly]

RolledUpBefore(hourly, day) ==
    [k \in EventIds \X DailyDates |->
        IF k[2] < day /\ RollupHours(hourly, k[1], k[2]) # {}
        THEN RollupRow(hourly, k[1], k[2]) ELSE NoDaily]

RetentionEnvValues == {"null", "", "0", "1", "-5", "abc"}

InitDailyJobs ==
    /\ clock = 0
    /\ poller_runs = [h \in HourBuckets |-> NoRun]
    /\ poller_run_events = [k \in HourBuckets \X EventIds |-> NoRunEvent]
    /\ inv = [i \in Invocations |-> IdleInvocation]
    /\ dbErrors = 0
    /\ \E k \in 1..Len(DailyEventKinds) :
          /\ events = EventTable(DailyEventKinds, k)
          /\ event_price_hourly = PolledHourly(EventTable(DailyEventKinds, k))
          /\ event_price_daily =
                RolledUpBefore(PolledHourly(EventTable(DailyEventKinds, k)), 0)
    /\ \E raw \in RetentionEnvValues :
          call = [fn |-> "retention", env |-> raw, hourlyRuns |-> 0,
                  dailyJobs |-> 0]

\* Step 2.5 of an hourly run at the time of the clock
HourlyRetention(ok) ==
    /\ call.fn = "retention"
    /\ Db(ok)
    /\ event_price_hourly' =
          IF ok
          THEN applyRetentionOfDays(event_price_hourly, events, clock,
                                    RetentionDaysOf(call.env))
          ELSE event_price_hourly
    /\ call' = [call EXCEPT !.hourlyRuns = Min2(@ + 1, MaxRetentionRuns)]
    /\ UNCHANGED <<clock, events, poller_runs, event_price_daily,
                   poller_run_events, inv>>

\* the daily job of the store: rollup_hourly_to_daily(), then
\* apply_ended_event_hourly_retention() with its default horizon
DailyJob ==
    /\ call.fn = "retention"
    /\ event_price_daily' =
          rollup_hourly_to_daily(event_price_hourly, event_price_daily)
    /\ event_price_hourly' =
          applyRetentionOfDays(event_price_hourly, events, clock,
                               RetentionDaysDefault)
    /\ call' = [call EXCEPT !.dailyJobs = Min2(@ + 1, MaxRetentionRuns)]
    /\ UNCHANGED <<clock, events, poller_runs, poller_run_events, inv,
                   dbErrors>>

NextDaily ==
    \/ \E ok \in BOOLEAN : HourlyRetention(ok)
    \/ DailyJob
    \/ Tick

SpecDaily == InitDailyJobs /\ [][NextDaily]_vars

(***************************************************************************)
(* SpecSign: one signature and one request of a TicketEvolutionClient that *)
(* a function creates from its environment, for a parameter map and the    *)
(* same map with its entries inserted in another order.                    *)
(***************************************************************************)
ParamPairs ==
    { <<"event_id", <<"1", "2">>>>, <<"type", <<"e", "v", "e", "n", "t">>>>,
      <<"q", <<"a", " ", "b">>>>, <<"q", <<"a", "+", "b">>>>,
      <<"per_page", <<"5">>>> }

\* the parameter maps of up to three entries: no key twice
ParamMaps ==
    {m \in UNION {[1..n -> ParamPairs] : n \in 0..3} :
        \A j, k \in 1..Len(m) : j # k => m[j][1] # m[k][1]}

SameMap(m, n) ==
    /\ Len(m) = Len(n)
    /\ \A j \in 1..Len(m) : \E k \in 1..Len(n) : m[j] = n[k]

InitSign ==
    /\ InitStore
    /\ events = EventTable(LockEventKinds, 1)
    /\ \E env \in {"null", "https://api.sandbox.ticketevolution.com/v9",
                  "https://api.ticketevolution.com/v9",
                  "https://api.ticketevolution.com/v9/"},
         caller \in {"hourly-poller", "refresh-event-metadata"},
         method \in {"GET", "POST"},
         secret \in {"secret-1", "secret-2"},
         endpoint \in {<<"/", "listings">>, <<"listings">>,
                       <<"/", "events", "/", "2">>},
         params \in ParamMaps, reordered \in ParamMaps :
          /\ SameMap(params, reordered)
          /\ call = [fn |-> "TicketEvolutionClient", env |-> env,
                     caller |-> caller, method |-> method,
                     secret |-> secret, endpoint |-> endpoint,
                     params |-> params, reordered |-> reordered,
                     pc |-> "start", client |-> "none",
                     signed |-> <<>>, signedReordered |-> <<>>,
                     signature |-> "none", signatureReordered |-> "none",
                     request |-> "none"]

\* the function reads TE_API_TOKEN, TE_API_SECRET and TE_API_BASE_URL and
\* creates its client
CreateClient ==
    /\ call.fn = "TicketEvolutionClient"
    /\ call.pc = "start"
    /\ call' = [call EXCEPT
                  !.pc = "created",
                  !.client = TicketEvolutionClient("token", call.secret,
                                                   call.env)]
    /\ UNCHANGED <<clock, events, poller_runs, event_price_hourly,
                   event_price_daily, poller_run_events, inv, dbErrors>>

\* generateSignature for the path with its version prefix, for both
\* insertion orders
GenerateSignature ==
    /\ call.fn = "TicketEvolutionClient"
    /\ call.pc = "created"
    /\ LET path == FullPath(call.client, call.endpoint)
       IN call' = [call EXCEPT
             !.pc = "signed",
             !.signed = StringToSign(call.client, call.method, path,
                                     call.params),
             !.signedReordered = StringToSign(call.client, call.method, path,
                                              call.reordered),
             !.signature = generateSignature(call.client, call.method, path,
                                             call.params),
             !.signatureReordered =
                 generateSignature(call.client, call.method, path,
                                   call.reordered)]
    /\ UNCHANGED <<clock, events, poller_runs, event_price_hourly,
                   event_price_daily, poller_run_events, inv, dbErrors>>

\* get(endpoint, params) up to its fetch
GetRequest ==
    /\ call.fn = "TicketEvolutionClient"
    /\ call.pc = "signed"
    /\ call' = [call EXCEPT
                  !.pc = "sent",
                  !.request = TeGet(call.client, call.endpoint, call.params)]
    /\ UNCHANGED <<clock, events, poller_runs, event_price_hourly,
                   event_price_daily, poller_run_events, inv, dbErrors>>

NextSign ==
    \/ CreateClient
    \/ GenerateSignature
    \/ GetRequest

SpecSign == InitSign /\ [][NextSign]_vars

(***************************************************************************)
(* SpecOlt: one call of slugify for a text, or of buildOltEventUrl for a   *)
(* TE event any of whose fields can be missing.                            *)
(***************************************************************************)
MaxSlugLen == 5

SlugAlphabet == {"a", "B", " ", "-", "&", "!"}

\* the texts of up to MaxSlugLen characters, the texts of the catalogue
\* and the text slugify uses as its placeholder
SlugTexts ==
    UNION {[1..n -> SlugAlphabet] : n \in 0..MaxSlugLen}
    \cup {PLACEHOLDER, TextChars("Bulls vs Lakers - Game 2"),
          TextChars("Rock & Roll (Late)")}

OltEvents ==
    {TeEvent(id, name, occurs_at, venue, timezone, category) :
        id \in {NULL, 1},
        name \in {"null", "", "Bulls vs Lakers"},
        occurs_at \in {NoTime, NullOccursAt, NotADate, Time(1500, "te"),
                       Time(20000, "te")},
        venue \in {NoVenue, Venue("Chicago", "IL", "United Center")},
        timezone \in {"null", "America/New_York", "Mars/Olympus"},
        category \in {"null", "Sports"}}

InitOlt ==
    /\ InitStore
    /\ events = EventTable(LockEventKinds, 1)
    /\ \/ \E text \in SlugTexts :
            call = [fn |-> "slugify", s |-> text, pc |-> "start",
                    result |-> <<>>]
       \/ \E e \in OltEvents :
            call = [fn |-> "buildOltEventUrl", event |-> e, pc |-> "start",
                    result |-> [ok |-> FALSE, error |-> "none"]]

Slugify ==
    /\ call.fn = "slugify"
    /\ call.pc = "start"
    /\ call' = [call EXCEPT !.pc = "done", !.result = SlugOf(call.s)]
    /\ UNCHANGED <<clock, events, poller_runs, event_price_hourly,
                   event_price_daily, poller_run_events, inv, dbErrors>>

BuildOltEventUrl ==
    /\ call.fn = "buildOltEventUrl"
    /\ call.pc = "start"
    /\ call' = [call EXCEPT !.pc = "done",
                            !.result = buildOltEventUrl(call.event)]
    /\ UNCHANGED <<clock, events, poller_runs, event_price_hourly,
                   event_price_daily, poller_run_events, inv, dbErrors>>

NextOlt ==
    \/ Slugify
    \/ BuildOltEventUrl

SpecOlt == InitOlt /\ [][NextOlt]_vars

(***************************************************************************)
(* SpecRefresh: invocations of refresh-event-metadata, one after the other, *)
(* over a table of events.  SpecEdits: one invocation in apply mode while  *)
(* operators edit rows and the upsert tools run.  The function's locals    *)
(* are in call; call.te is what TE answers for each event, call.column the *)
(* behaviour of the timestamp columns, call.reports the response bodies    *)
(* so far and call.times the value of now of each.                         *)
(***************************************************************************)
NumRefreshEvents == 2

MaxRefreshRuns == 2

MaxToolRuns == 1

MaxRefreshClock == 15

RefreshIds == 1..NumRefreshEvents

BaseVenue == Venue("Chicago", "IL", "United Center")

BaseTeEvent(id) ==
    TeEvent(id, "Bulls vs Lakers", Time(600, "te"), BaseVenue, "null",
            "Sports")

\* the events TE can answer with; "over" has ended once the clock advances
TeEventOf(kind, id) ==
    CASE kind = "same" -> BaseTeEvent(id)
      [] kind = "renamed" ->
           [BaseTeEvent(id) EXCEPT !.name = "Bulls vs Lakers - Game 2"]
      [] kind = "moved" ->
           [BaseTeEvent(id) EXCEPT
               !.venue = Venue("Chicago", "IL", "Soldier Field")]
      [] kind = "rescheduled" ->
           [BaseTeEvent(id) EXCEPT !.occurs_at = Time(900, "te")]
      [] kind = "over" ->
           [BaseTeEvent(id) EXCEPT !.occurs_at = Time(0 - EVENT_DURATION_HOURS * HourMinutes, "te")]
      [] kind = "zone" ->
           [BaseTeEvent(id) EXCEPT !.timezone = "Mars/Olympus"]
      [] kind = "rezoned" ->
           [BaseTeEvent(id) EXCEPT !.name = "Bulls vs Lakers - Game 2",
                                   !.timezone = "Mars/Olympus"]
      [] kind = "nameless" -> [BaseTeEvent(id) EXCEPT !.name = "null"]
      [] kind = "undated" -> [BaseTeEvent(id) EXCEPT !.occurs_at = NotADate]

\* the payload withRetry returns or the error it throws at last
TePayloadOf(kind, id) ==
    IF kind = "notfound"
    THEN [ok |-> FALSE, error |-> "TE API Error: 404"]
    ELSE [ok |-> TRUE, event |-> TeEventOf(kind, id)]

\* the row an earlier apply-mode refresh stored for the TE event
RowBuiltFrom(column, teEvent) ==
    UpdatedRow(column,
        EventsRow(teEvent.name, teEvent.occurs_at,
                  toISOString(teEvent.occurs_at.at
                              + EVENT_DURATION_HOURS * HourMinutes),
                  NullTime, TRUE, buildOltEventUrl(teEvent).url,
                  toISOString(0 - DayMinutes)))

\* the stored rows: as built, without olt_url, disabled by an operator,
\* ended by an operator
StoredRow(kind, column, teEvent) ==
    LET row == RowBuiltFrom(column, teEvent)
    IN CASE kind = "fresh" -> row
         [] kind = "nourl" -> [row EXCEPT !.olt_url = NoUrl]
         [] kind = "disabled" -> [row EXCEPT !.polling_enabled = FALSE]
         [] kind = "ended" ->
              [row EXCEPT !.ended_at = Stored(column, toISOString(0 - 60))]

\* <<what TE answers for event 1, the stored row of event 1>>
RefreshScenarios ==
    { <<"same", "fresh">>, <<"same", "nourl">>, <<"same", "disabled">>,
      <<"same", "ended">>, <<"renamed", "fresh">>, <<"renamed", "disabled">>,
      <<"moved", "fresh">>, <<"rescheduled", "fresh">>, <<"over", "fresh">>,
      <<"zone", "nourl">>, <<"zone", "fresh">>, <<"rezoned", "fresh">>, <<"nameless", "fresh">>,
      <<"undated", "fresh">>, <<"notfound", "fresh">> }

NoTool == [pc |-> "idle", runs |-> 0]

RefreshCall(column, te, request, maxRuns) ==
    [fn |-> "refresh-event-metadata", column |-> column, te |-> te,
     request |-> request, maxRuns |-> maxRuns, pc |-> "idle",
     dryRun |-> TRUE,
     requestedIds |-> [all |-> TRUE, ids |-> <<>>], rows |-> <<>>,
     pos |-> 1, nowMs |-> 0, pending |-> [status |-> "none"],
     results |-> <<>>, reports |-> <<>>, times |-> <<>>,
     upsertEvent |-> NoTool,
     populate |-> 0]

InitRefreshWith(scenarios, requests, maxRuns) ==
    /\ InitStore
    /\ \E column \in {"text", "timestamptz"}, sc \in scenarios,
         request \in requests :
          LET kind(e) == IF e = 1 THEN sc[1] ELSE "renamed"
              built(e) == IF kind(e) = "over" THEN TeEventOf("over", e)
                          ELSE BaseTeEvent(e)
          IN /\ events = [e \in RefreshIds |->
                            StoredRow(IF e = 1 THEN sc[2] ELSE "fresh",
                                      column, built(e))]
             /\ call = RefreshCall(column,
                                   [e \in RefreshIds |->
                                       TePayloadOf(kind(e), e)],
                                   request, maxRuns)

InitRefresh ==
    InitRefreshWith(RefreshScenarios,
                    {Request("null", "null", NoArray, dry_run) :
                        dry_run \in {"null", "true", "false"}},
                    MaxRefreshRuns)

\* the event that operators and tools touch, refreshed alone
EditedIds == {1}

EditScenarios ==
    { <<"same", "fresh">>, <<"renamed", "fresh">>, <<"over", "fresh">> }

InitEdits ==
    InitRefreshWith(EditScenarios,
                    {Request("1", "null", NoArray, "false")}, 1)

RefreshUnchanged ==
    UNCHANGED <<clock, poller_runs, event_price_hourly, event_price_daily,
                poller_run_events, inv>>

\* the request is parsed, the events query is awaited and now is taken
RefreshStart(ok) ==
    /\ call.fn = "refresh-event-metadata"
    /\ call.pc \in {"idle", "done"}
    /\ Len(call.reports) < call.maxRuns
    /\ Db(ok)
    /\ LET requestedIds == RequestedIds(call.request)
       IN IF ok
          THEN call' = [call EXCEPT
                          !.pc = "loop",
                          !.dryRun = DryRunOf(call.request),
                          !.requestedIds = requestedIds,
                          !.rows = SelectRows(requestedIds, events),
                          !.pos = 1, !.nowMs = clock, !.results = <<>>]
          ELSE call' = [call EXCEPT
                          !.pc = "done",
                          !.reports = Append(@, [status |-> "failed"]),
                          !.times = Append(@, clock)]
    /\ UNCHANGED events
    /\ RefreshUnchanged

\* the loop body for the next row, from the TE call to the UPDATE or, when
\* there is none, to the push of the result
RefreshFetch ==
    /\ call.fn = "refresh-event-metadata"
    /\ call.pc = "loop"
    /\ call.pos <= Len(call.rows)
    /\ LET r == call.rows[call.pos]
           outcome == RefreshEvent(r.row, call.te[r.te_event_id], call.nowMs)
       IN IF outcome.status = "updated" /\ ~call.dryRun
          THEN call' = [call EXCEPT !.pc = "update", !.pending = outcome]
          ELSE call' = [call EXCEPT
                          !.results = Append(@, ResultEntry(r.te_event_id,
                                                            outcome)),
                          !.pos = @ + 1]
    /\ UNCHANGED <<events, dbErrors>>
    /\ RefreshUnchanged

\* the UPDATE of the row and the push of its result
RefreshUpdate(ok) ==
    /\ call.fn = "refresh-event-metadata"
    /\ call.pc = "update"
    /\ Db(ok)
    /\ LET id == call.rows[call.pos].te_event_id
       IN /\ events' = IF ok
                       THEN [events EXCEPT
                               ![id] = UpdatedRow(call.column,
                                                  call.pending.payload)]
                       ELSE events
          /\ call' = [call EXCEPT
                        !.pc = "loop",
                        !.pending = [status |-> "none"],
                        !.results =
                            Append(@, IF ok
                                      THEN ResultEntry(id, call.pending)
                                      ELSE ResultEntry(id,
                                             RefreshError("Update failed"))),
                        !.pos = @ + 1]
    /\ RefreshUnchanged

\* the 200 response
RefreshRespond ==
    /\ call.fn = "refresh-event-metadata"
    /\ call.pc = "loop"
    /\ call.pos > Len(call.rows)
    /\ call' = [call EXCEPT
                  !.pc = "done",
                  !.reports = Append(@, RefreshResponse(call.dryRun,
                                            call.requestedIds, call.rows,
                                            call.results)),
                  !.times = Append(@, call.nowMs)]
    /\ UNCHANGED <<events, dbErrors>>
    /\ RefreshUnchanged

\* an operator stops polling by setting ended_at to the current time
SetEndedAt(e) ==
    /\ call.fn = "refresh-event-metadata"
    /\ events[e].ended_at = NullTime
    /\ events' = [events EXCEPT
                    ![e].ended_at = Stored(call.column, toISOString(clock))]
    /\ UNCHANGED <<call, dbErrors>>
    /\ RefreshUnchanged

\* populateEventsByPerformer.js --dry_run=false: the upsert of the row
\* mapped from the TE event
PopulateUpsert(e) ==
    /\ call.fn = "refresh-event-metadata"
    /\ call.populate < MaxToolRuns
    /\ call.te[e].ok
    /\ LET mapped == mapTeEventToUpsertRow(call.te[e].event, clock)
       IN /\ ~mapped.skipped
          /\ events' = [events EXCEPT
                          ![e] = PopulateUpsertRow(call.column, events[e],
                                                   mapped.row)]
    /\ call' = [call EXCEPT !.populate = @ + 1]
    /\ UNCHANGED dbErrors
    /\ RefreshUnchanged

\* upsertEvent.js: the TE event is fetched, now is taken and the existing
\* row is read
UpsertEventRead(e) ==
    /\ call.fn = "refresh-event-metadata"
    /\ call.upsertEvent.pc = "idle"
    /\ call.upsertEvent.runs < MaxToolRuns
    /\ call.te[e].ok
    /\ call.te[e].event.name # "null"
    /\ DateMs(call.te[e].event.occurs_at) # NaN
    /\ call' = [call EXCEPT
                  !.upsertEvent = [pc |-> "read", runs |-> @.runs + 1,
                                   id |-> e, now |-> clock,
                                   existing |-> events[e]]]
    /\ UNCHANGED <<events, dbErrors>>
    /\ RefreshUnchanged

\* upsertEvent.js: the upsert
UpsertEventWrite ==
    /\ call.fn = "refresh-event-metadata"
    /\ call.upsertEvent.pc = "read"
    /\ LET t == call.upsertEvent
       IN events' = [events EXCEPT
                       ![t.id] = UpsertEventRow(call.column, events[t.id],
                                                t.existing,
                                                call.te[t.id].event, t.now)]
    /\ call' = [call EXCEPT
                  !.upsertEvent = [pc |-> "idle", runs |-> @.runs]]
    /\ UNCHANGED dbErrors
    /\ RefreshUnchanged

\* the requests of SpecSelect: every combination of an absent, a valid and
\* an invalid query parameter, body event_id and te_event_ids array
SelectRequests ==
    {Request(query, event_id, te_event_ids, dry_run) :
        query \in {"null", "1", "2", "0", "-5", "abc"},
        event_id \in {"null", "1", "2", "0", "abc"},
        te_event_ids \in {NoArray, ArrayOf(<<>>), ArrayOf(<<2>>),
                          ArrayOf(<<0>>), ArrayOf(<<2, 1>>),
                          ArrayOf(<<0, 2>>)},
        dry_run \in {"null", "false"}}

InitSelect == InitRefreshWith({<<"same", "fresh">>}, SelectRequests, 1)

NextRefresh ==
    \/ \E ok \in BOOLEAN : RefreshStart(ok)
    \/ RefreshFetch
    \/ \E ok \in BOOLEAN : RefreshUpdate(ok)
    \/ RefreshRespond
    \/ clock < MaxRefreshClock /\ Tick

SpecRefresh == InitRefresh /\ [][NextRefresh]_vars

\* SpecSelect: one invocation for each request of SelectRequests
SpecSelect == InitSelect /\ [][NextRefresh]_vars

NextEdits ==
    \/ \E ok \in BOOLEAN : RefreshStart(ok)
    \/ RefreshFetch
    \/ \E ok \in BOOLEAN : RefreshUpdate(ok)
    \/ RefreshRespond
    \/ \E e \in EditedIds : DisablePolling(e)
    \/ \E e \in EditedIds : SetEndedAt(e)
    \/ \E e \in EditedIds : PopulateUpsert(e)
    \/ \E e \in EditedIds : UpsertEventRead(e)
    \/ UpsertEventWrite
    \/ clock < MaxRefreshClock /\ Tick

SpecEdits == InitEdits /\ [][NextEdits]_vars

(***************************************************************************)
(* Properties of the lock protocol.                                        *)
(***************************************************************************)
\* the hour bucket invocation i works on
HourOf(i) == IF inv[i].now = NULL THEN NULL ELSE hourBucket(i)

InsertWinners(h) ==
    {i \in Invocations : inv[i].acquired = "insert" /\ HourOf(i) = h}

InsertLosers(h) ==
    {i \in Invocations : inv[i].insertConflict /\ HourOf(i) = h}

ReturnedSkipped(i, reason) ==
    /\ inv[i].pc = "done"
    /\ inv[i].response.http = 200
    /\ inv[i].response.status = "skipped"
    /\ inv[i].response.reason = reason

WroteNothing(i) ==
    /\ inv[i].teCalled = {}
    /\ inv[i].hourlyWritten = {}
    /\ \A e \in EventIds : inv[i].runEventWritten[e] = "none"

\* lock held (by INSERT or by reclaim) and run not yet finalized
Processing(i) ==
    /\ inv[i].acquired # "none"
    /\ inv[i].pc \in {"fetch_events", "retention", "events_total",
                      "finish_empty", "batch", "finalize"}

\* C1 (as amended): for an hour bucket without a row, exactly one INSERT wins
\* and the row exists iff an INSERT has won; an invocation that holds no lock
\* calls TE for nothing and writes nothing; an invocation whose INSERT lost
\* ends with skipped/already_running, with skipped/already_ran when the row it
\* read was finished, with a 500 when a database call of the lock protocol
\* failed, or it reclaims the row, and this only when the row was unfinished
\* and older than the stale window.
C1_LockExclusivity ==
    \A h \in HourBuckets :
        /\ Cardinality(InsertWinners(h)) <= 1
        /\ (poller_runs[h].status # "absent") <=> (InsertWinners(h) # {})
        /\ \A i \in Invocations :
              HourOf(i) = h /\ inv[i].acquired = "none" => WroteNothing(i)
        /\ \A i \in InsertLosers(h) :
              /\ inv[i].acquired # "insert"
              /\ inv[i].pc = "done" =>
                    \/ /\ ReturnedSkipped(i, "already_running")
                       /\ inv[i].acquired = "none"
                       /\ inv[i].existingFinishedAt = NULL
                    \/ /\ ReturnedSkipped(i, "already_ran")
                       /\ inv[i].acquired = "none"
                       /\ inv[i].existingFinishedAt # NULL
                    \/ /\ inv[i].lockDbError
                       /\ inv[i].acquired = "none"
                       /\ inv[i].response.http = 500
                    \/ /\ inv[i].acquired = "reclaim"
                       /\ inv[i].reclaimedAt - inv[i].reclaimedFrom
                             > StaleLockMinutes

\* two invocations of one hour: the winner of the INSERT polls, the loser has
\* returned skipped/already_running
C1_Witness ==
    \E h \in HourBuckets :
        \E w \in InsertWinners(h), l \in InsertLosers(h) :
            /\ inv[w].teCalled # {}
            /\ ReturnedSkipped(l, "already_running")
            /\ WroteNothing(l)

\* C1 as stated: every invocation whose INSERT lost returns skipped with
\* already_running or already_ran, calls TE for nothing and writes no hourly
\* row (as long as no database call has returned an error).
C1_EveryLoserSkips ==
    \A h \in HourBuckets :
        \A i \in InsertLosers(h) :
            dbErrors = 0 =>
                /\ inv[i].teCalled = {}
                /\ inv[i].hourlyWritten = {}
                /\ inv[i].pc = "done" =>
                      \/ ReturnedSkipped(i, "already_running")
                      \/ ReturnedSkipped(i, "already_ran")

\* C2: for each hour bucket at most one invocation is in its processing phase.
C2_AtMostOneProcessing ==
    \A h \in HourBuckets :
        Cardinality({i \in Invocations : Processing(i) /\ HourOf(i) = h}) <= 1

\* the invocations that obtained the row of hour h by reclaim
Reclaimers(h) ==
    {i \in Invocations : inv[i].acquired = "reclaim" /\ HourOf(i) = h}

\* what the recovery UPDATE of invocation i does in a step that leaves pc
\* "recover" by the handler's own code
RecoverStep(i) ==
    LET h == hourBucket(i)
        row == poller_runs[h]
        reclaimed == [row EXCEPT !.status = "failed",
                                 !.error_sample = "stale_lock_timeout",
                                 !.started_at = clock,
                                 !.events_processed = 0]
    IN inv[i].pc = "recover" /\ inv'[i].pc \notin {"recover", "killed"}
       /\ dbErrors' = dbErrors
       => IF row.finished_at = NULL /\ clock - row.started_at > StaleLockMinutes
          THEN /\ poller_runs' = [poller_runs EXCEPT ![h] = reclaimed]
               /\ poller_runs'[h].finished_at = NULL
               /\ inv'[i].pc = "fetch_events"
               /\ inv'[i].acquired = "reclaim"
          ELSE /\ poller_runs' = poller_runs
               /\ inv'[i].pc = "done"
               /\ inv'[i].acquired = "none"
               /\ inv'[i].response.http = 200
               /\ inv'[i].response.status = "skipped"
               /\ inv'[i].response.reason = "already_running"

\* C3: the recovery UPDATE matches exactly the unfinished row older than the
\* stale window; the invocation whose UPDATE matches sets status=failed,
\* error_sample=stale_lock_timeout, started_at=now, events_processed=0, leaves
\* finished_at null and proceeds to poll, every other one returns
\* already_running; no two invocations reclaim the same row: the second one
\* reclaims, more than a stale window later, the row the first one restarted.
C3_StaleReclaim ==
    /\ [](\A h \in HourBuckets :
            \A a \in Reclaimers(h) :
                /\ inv[a].reclaimedAt - inv[a].reclaimedFrom > StaleLockMinutes
                /\ \A b \in Reclaimers(h) \ {a} :
                      /\ inv[a].reclaimedFrom # inv[b].reclaimedFrom
                      /\ inv[a].reclaimedAt < inv[b].reclaimedAt
                            => inv[b].reclaimedFrom = inv[a].reclaimedAt)
    /\ [][\A i \in Invocations : RecoverStep(i)]_vars

\* the killed run's row: one invocation has reclaimed it and polls; another,
\* started when that row was already stale, has returned already_running
C3_Witness ==
    \E a, b \in Invocations :
        /\ a # b
        /\ HourOf(a) = HourOf(b)
        /\ inv[a].acquired = "reclaim"
        /\ inv[a].teCalled # {}
        /\ inv[b].insertConflict
        /\ inv[b].now - inv[a].reclaimedFrom > StaleLockMinutes
        /\ ReturnedSkipped(b, "already_running")

\* C4: once the row of hour H has finished_at non-null, no invocation writes
\* an hourly row or a run-event row for H.
C4_NoWriteAfterFinished ==
    [][\A i \in Invocations :
          (\/ inv'[i].hourlyWritten # inv[i].hourlyWritten
           \/ inv'[i].runEventWritten # inv[i].runEventWritten)
          => poller_runs[hourBucket(i)].finished_at = NULL]_vars

(***************************************************************************)
(* Properties of a run.                                                    *)
(***************************************************************************)
\* the stop-check condition, on the row the run has read
PassesCheck(row, nowT) ==
    /\ row.polling_enabled
    /\ row.ended_at = NULL
    /\ \/ row.ends_at = NULL
       \/ row.ends_at = UNPARSEABLE
       \/ row.ends_at > nowT

HasReadEvents(i) == inv[i].rows # <<>>

PassingEvents(i) ==
    {e \in EventIds : PassesCheck(inv[i].rows[e], inv[i].now)}

\* C5: TE is called for an event iff, on the rows the run has read,
\* polling_enabled is true, ended_at is null, and ends_at is null, unparseable
\* or strictly later than now; the other events get no TE call, no hourly
\* upsert and no run-event row; events_total of the run (the value of the
\* response, and of the row when no database call failed) is the number of
\* events that pass.
C5_StopCheck ==
    \A i \in Invocations :
        HasReadEvents(i) =>
            LET h == hourBucket(i)
                passing == PassingEvents(i)
            IN /\ Len(inv[i].events) = Cardinality(passing)
               /\ inv[i].teCalled \subseteq passing
               /\ inv[i].pc \in {"finalize", "done"}
                     => inv[i].teCalled = passing
               /\ \A e \in EventIds \ passing :
                     /\ e \notin inv[i].hourlyWritten
                     /\ inv[i].runEventWritten[e] = "none"
                     /\ inv[i].stage[e] = "idle"
                     /\ event_price_hourly[<<e, h>>] = NoHourly
                     /\ poller_run_events[<<h, e>>] = NoRunEvent
               /\ inv[i].pc = "done"
                     => inv[i].response.events_total = Cardinality(passing)
               /\ inv[i].pc \in {"finish_empty", "batch", "finalize", "done"}
                  /\ dbErrors = 0
                     => poller_runs[h].events_total = Cardinality(passing)

\* a finished run that read an event disabled afterwards and polled it, polled
\* an event with an unparseable ends_at, and left out an event whose ends_at is
\* its own now
C5_Witness ==
    \E i \in Invocations :
        /\ HasReadEvents(i)
        /\ inv[i].pc = "done"
        /\ \E e \in inv[i].teCalled : ~events[e].polling_enabled
        /\ \E e \in inv[i].teCalled : inv[i].rows[e].ends_at = UNPARSEABLE
        /\ \E e \in EventIds \ inv[i].teCalled :
              /\ inv[i].rows[e].polling_enabled
              /\ inv[i].rows[e].ended_at = NULL
              /\ inv[i].rows[e].ends_at = inv[i].now

\* a count column, null read as 0
Num(x) == IF x = NULL THEN 0 ELSE x

\* C6: every row of poller_runs with finished_at non-null has
\* events_total = events_succeeded + events_failed + debug.skipped_count.
C6_CountsAddUp ==
    \A h \in HourBuckets :
        poller_runs[h].finished_at # NULL =>
            Num(poller_runs[h].events_total)
                = Num(poller_runs[h].events_succeeded)
                  + Num(poller_runs[h].events_failed)
                  + Num(poller_runs[h].skipped_count)

\* the classification by counts
ClassifiedByCounts(status, succeeded, failed) ==
    /\ status \in {"succeeded", "partial", "failed"}
    /\ status = "succeeded" <=> failed = 0
    /\ status = "partial" <=> (succeeded > 0 /\ failed > 0)
    /\ status = "failed" <=> (succeeded = 0 /\ failed > 0)

\* the invocation has finalized a run that processed events
FinalizedRun(i) ==
    /\ inv[i].pc = "done"
    /\ inv[i].response.http = 200
    /\ inv[i].response.events_processed # NULL

\* the final UPDATE of invocation i writes the status its counts imply
FinalizeStep(i) ==
    LET h == hourBucket(i)
    IN inv[i].pc = "finalize" /\ inv'[i].pc = "done" /\ dbErrors' = dbErrors
       => /\ poller_runs'[h].finished_at # NULL
          /\ poller_runs'[h].status = inv'[i].response.status
          /\ poller_runs'[h].events_succeeded
                = CountStatus(inv[i].results, "succeeded")
          /\ poller_runs'[h].events_failed
                = CountStatus(inv[i].results, "failed")
          /\ ClassifiedByCounts(poller_runs'[h].status,
                                poller_runs'[h].events_succeeded,
                                poller_runs'[h].events_failed)

\* C7: the status of a finalized run that processed events, in its response
\* and in the row its final UPDATE writes, is succeeded iff events_failed = 0,
\* partial iff events_succeeded > 0 and events_failed > 0, failed iff
\* events_succeeded = 0 and events_failed > 0.
C7_FinalStatus ==
    /\ [](\A i \in Invocations :
            FinalizedRun(i) =>
                /\ inv[i].response.events_succeeded
                      = CountStatus(inv[i].results, "succeeded")
                /\ inv[i].response.events_failed
                      = CountStatus(inv[i].results, "failed")
                /\ ClassifiedByCounts(inv[i].response.status,
                                      inv[i].response.events_succeeded,
                                      inv[i].response.events_failed))
    /\ [][\A i \in Invocations : FinalizeStep(i)]_vars

\* a finalized run with one succeeded, one failed and one skipped event
C7_Witness ==
    \E i \in Invocations :
        /\ FinalizedRun(i)
        /\ inv[i].response.status = "partial"
        /\ inv[i].response.events_succeeded = 1
        /\ inv[i].response.events_failed = 1
        /\ inv[i].response.events_skipped = 1
        /\ poller_runs[hourBucket(i)].status = "partial"

\* C8: at finalization every event of the run has exactly one result,
\* events_processed = events_total, the run is classified from the counts,
\* and the handler's catch is entered only before the first TE call.
C8_PerEventIsolation ==
    \A i \in Invocations :
        /\ inv[i].pc = "catch" => inv[i].teCalled = {}
        /\ inv[i].pc \in {"finalize", "done"} /\ inv[i].teCalled # {} =>
              /\ Len(inv[i].results) = Len(inv[i].events)
              /\ \A k \in 1..Len(inv[i].events) :
                    /\ inv[i].results[k].te_event_id = inv[i].events[k]
                    /\ inv[i].results[k].status
                          \in {"succeeded", "failed", "skipped"}
        /\ inv[i].pc = "done" /\ inv[i].teCalled # {} =>
              /\ inv[i].response.http = 200
              /\ inv[i].response.events_processed
                    = inv[i].response.events_total
              /\ inv[i].response.events_total = Len(inv[i].events)
              /\ inv[i].response.events_succeeded
                 + inv[i].response.events_failed
                 + inv[i].response.events_skipped = Len(inv[i].events)
              /\ ClassifiedByCounts(inv[i].response.status,
                                    inv[i].response.events_succeeded,
                                    inv[i].response.events_failed)

\* a finalized run of three events: the first failed at TE after its retries,
\* the second failed at the hourly upsert, the third succeeded
C8_Witness ==
    \E i \in Invocations :
        /\ FinalizedRun(i)
        /\ Len(inv[i].results) = 3
        /\ inv[i].results[1].error = "TE API Error: 503"
        /\ inv[i].results[2].error = "Failed to upsert hourly data: db_error"
        /\ inv[i].results[3].status = "succeeded"

\* the hourly row and the run-event row of event e in the hour of invocation i
HourlyRowFor(i, e) == event_price_hourly[<<e, hourBucket(i)>>]
RunEventRowFor(i, e) == poller_run_events[<<hourBucket(i), e>>]

\* processEvent(e) of invocation i has returned a failed result
FailedEvent(i, e) ==
    inv[i].stage[e] = "done" /\ inv[i].res[e].status = "failed"

NoneEligible(i, e) ==
    /\ e \in inv[i].teAnswered
    /\ \A k \in 1..Len(inv[i].teListings[e]) :
          ~isEligibleListing(inv[i].teListings[e][k])

ZeroHourlyRow ==
    [listing_count |-> 0, min_price |-> NULL, avg_price |-> NULL,
     max_price |-> NULL]

\* C10 (as amended): when TE returns no eligible listing, processEvent upserts
\* an hourly row with listing_count=0 and null min/avg/max; when that upsert
\* succeeds the event is skipped with error=no_eligible_listings (not failed)
\* and its run-event row says so unless the upsert of that row returns an
\* error; when the hourly upsert returns an error the event is failed and no
\* hourly row is written; in both cases the run continues to its
\* finalization and counts the event accordingly.
C10_NoEligibleListings ==
    \A i \in Invocations : \A e \in EventIds :
        NoneEligible(i, e) =>
            /\ inv[i].pc # "catch"
            /\ inv[i].stage[e] \in {"log", "done"} =>
                  IF e \in inv[i].hourlyWritten
                  THEN /\ HourlyRowFor(i, e) = ZeroHourlyRow
                       /\ inv[i].res[e].status = "skipped"
                       /\ inv[i].res[e].error = "no_eligible_listings"
                  ELSE /\ HourlyRowFor(i, e) = NoHourly
                       /\ inv[i].res[e].status = "failed"
            /\ inv[i].stage[e] = "done" /\ e \notin inv[i].runEventLogError
                  => /\ RunEventRowFor(i, e).status = inv[i].res[e].status
                     /\ RunEventRowFor(i, e).error = inv[i].res[e].error
            /\ inv[i].stage[e] = "done" /\ e \in inv[i].runEventLogError
                  => RunEventRowFor(i, e) = NoRunEvent
            /\ FinalizedRun(i) =>
                  /\ \E k \in 1..Len(inv[i].results) :
                        /\ inv[i].results[k].te_event_id = e
                        /\ inv[i].results[k].status = inv[i].res[e].status
                  /\ inv[i].response.events_skipped
                        = CountStatus(inv[i].results, "skipped")

\* a finalized run: TE returned three listings for an event, none eligible;
\* its hourly row has count 0, its run-event row is skipped, it is counted as
\* skipped, and a later event of the run succeeded
C10_Witness ==
    \E i \in Invocations : \E e \in EventIds :
        /\ NoneEligible(i, e)
        /\ Len(inv[i].teListings[e]) = 3
        /\ FinalizedRun(i)
        /\ HourlyRowFor(i, e) = ZeroHourlyRow
        /\ RunEventRowFor(i, e).status = "skipped"
        /\ RunEventRowFor(i, e).error = "no_eligible_listings"
        /\ inv[i].response.events_skipped = 1
        /\ inv[i].response.events_failed = 0
        /\ \E e2 \in EventIds : e2 > e /\ inv[i].res[e2].status = "succeeded"

\* C10 as stated: when TE returns no eligible listing, the hourly row with
\* listing_count=0 is upserted, the run-event row says skipped with
\* no_eligible_listings, and the event is skipped, not failed.
C10_AlwaysSkipped ==
    \A i \in Invocations : \A e \in EventIds :
        NoneEligible(i, e) /\ inv[i].stage[e] = "done" =>
            /\ HourlyRowFor(i, e) = ZeroHourlyRow
            /\ inv[i].res[e].status = "skipped"
            /\ RunEventRowFor(i, e).status = "skipped"
            /\ RunEventRowFor(i, e).error = "no_eligible_listings"

(***************************************************************************)
(* Properties of the hourly table.                                         *)
(***************************************************************************)
\* the invocations whose hourly upsert for key k succeeds in this step
HourlyWriters(k) ==
    {i \in Invocations :
        /\ inv[i].now # NULL
        /\ hourBucket(i) = k[2]
        /\ k[1] \in inv'[i].hourlyWritten \ inv[i].hourlyWritten}

\* C11: the table has one row per (te_event_id, captured_at_hour) (it is a
\* function of the key), and after every step the row of a key holds the
\* values of the most recent write for the key: a successful upsert leaves
\* the values it was given, also over the row of an earlier run of the hour,
\* and nothing else changes a row but the retention DELETE.
C11_LastWriteWins ==
    [][\A k \in DOMAIN event_price_hourly :
          IF HourlyWriters(k) # {}
          THEN \A i \in HourlyWriters(k) :
                  /\ event_price_hourly'[k] = HourlyRowOf(inv[i].res[k[1]])
                  /\ event_price_hourly'[k] # NoHourly
          ELSE \/ event_price_hourly'[k] = event_price_hourly[k]
               \/ /\ event_price_hourly'[k] = NoHourly
                  /\ \E i \in Invocations :
                        inv[i].pc = "retention"
                        /\ inv'[i].pc = "events_total"]_vars

\* a finished re-run of the first hour has replaced the hourly row of the
\* killed run by its own, different, values
C11_Witness ==
    \E i \in Invocations :
        /\ inv[i].pc = "done"
        /\ inv[i].acquired = "reclaim"
        /\ hourBucket(i) = 0
        /\ 1 \in inv[i].hourlyWritten
        /\ event_price_hourly[<<1, 0>>] = HourlyRowOf(inv[i].res[1])
        /\ event_price_hourly[<<1, 0>>] # KilledRunHourlyRow

(***************************************************************************)
(* Properties of a finished hour and of the ownership of the run row.      *)
(***************************************************************************)
\* invocation i takes a step
Steps(i) == inv'[i] # inv[i]

\* C12: an invocation that holds no lock and finds the row of its hour
\* bucket finished makes no TE call, leaves the run row and all hourly and
\* per-event rows unchanged, and answers its read of the row with
\* skipped/already_ran.
C12_FinishedHourUntouched ==
    [][\A i \in Invocations :
          /\ Steps(i)
          /\ inv[i].now # NULL
          /\ inv[i].acquired = "none"
          /\ poller_runs[HourOf(i)].finished_at # NULL
          => /\ poller_runs' = poller_runs
             /\ event_price_hourly' = event_price_hourly
             /\ poller_run_events' = poller_run_events
             /\ inv'[i].teCalled = {}
             /\ inv'[i].acquired = "none"
             /\ inv[i].pc = "read_existing" /\ dbErrors' = dbErrors
                   => /\ inv'[i].pc = "done"
                      /\ inv'[i].response.status = "skipped"
                      /\ inv'[i].response.reason = "already_ran"]_vars

\* the holder of hour h's lock was killed and nobody polls h any more
KilledHolder(h) ==
    /\ \E k \in Invocations :
          /\ inv[k].pc = "killed"
          /\ inv[k].acquired # "none"
          /\ HourOf(k) = h
    /\ \A k \in Invocations : HourOf(k) = h => ~Processing(k)

\* C13: when the holder of hour H's lock was killed, an invocation of a later
\* hour that runs to its response after the stale window has elapsed leaves
\* the row of H finished (it has reclaimed the row and run it to its end).
C13_NextHourReclaims ==
    \A i \in Invocations : \A h \in HourBuckets :
        /\ inv[i].pc = "done"
        /\ inv[i].response.http = 200
        /\ h < HourOf(i)
        /\ KilledHolder(h)
        /\ poller_runs[h].status # "absent"
        /\ inv[i].now - poller_runs[h].started_at > StaleLockMinutes
        => poller_runs[h].finished_at # NULL

\* C14: a step of an invocation changes a row of poller_runs only if the
\* invocation holds the lock (it has acquired it by INSERT or by reclaim, the
\* acquiring step included).
C14_OnlyHolderWrites ==
    [][\A i \in Invocations :
          Steps(i) /\ poller_runs' # poller_runs
          => inv'[i].acquired # "none"]_vars

(***************************************************************************)
(* Properties of fetchWithRetry.                                           *)
(***************************************************************************)
FailureOf(r) == CHOOSE f \in TeFailures : f.name = r.error

\* a transient failure: HTTP 408, 429, 500, 502, 503 or 504, or an error of
\* the network
Transient(r) ==
    \/ FailureOf(r).status \in {408, 429, 500, 502, 503, 504}
    \/ FailureOf(r).network

\* C15: a TE call whose first attempt failed gets a second attempt iff the
\* failure is transient (HTTP 408, 429, 500, 502, 503, 504 or a network or
\* timeout error); any other failure ends the call after one attempt,
\* whatever the response text holds
C15_RetryIffTransient ==
    call.fn = "fetchWithRetry" /\ call.outcome # "pending"
        /\ ~call.answers[1].ok
    => (call.calls > 1 <=> Transient(call.answers[1]))

\* the value of the loop is the value of fetchWithRetry
RetryLoopAgrees ==
    call.fn = "fetchWithRetry" /\ call.outcome # "pending"
    => call.value = fetchWithRetry(call.answers)

(***************************************************************************)
(* Properties of aggregatePrices.                                          *)
(***************************************************************************)
EligibleAt(listings) ==
    {k \in 1..Len(listings) : isEligibleListing(listings[k])}

\* the sum of the prices of the eligible ones of the first k listings
RECURSIVE EligiblePriceSum(_, _)
EligiblePriceSum(listings, k) ==
    IF k = 0 THEN 0
    ELSE EligiblePriceSum(listings, k - 1)
         + (IF k \in EligibleAt(listings) THEN listings[k].retail_price
            ELSE 0)

\* cents is the number with two decimals nearest to num / den thousandths
\* (the larger of two)
RoundsTo(cents, num, den) ==
    LET half == den * (PriceUnit \div CentUnit)
    IN /\ 2 * half * cents - half <= 2 * num
       /\ 2 * num < 2 * half * cents + half

NoBadPhrase(text) ==
    text = "null"
    \/ ~ \E phrase \in badPhrases :
            Includes(ToLowerCase(TextChars(text)), TextChars(phrase))

EligibleInWords(listing) ==
    /\ listing.type = "event"
    /\ NoBadPhrase(listing.public_notes)
    /\ NoBadPhrase(listing.notes)
    /\ listing.retail_price # NaN
    /\ listing.retail_price > 0
    /\ listing.retail_price < 100000 * PriceUnit
    /\ listing.available_quantity % QuantityUnit = 0
    /\ listing.available_quantity >= 2 * QuantityUnit
    /\ listing.available_quantity < 10000 * QuantityUnit
    /\ 2 \in listing.splits

\* C17: aggregatePrices counts a listing as eligible iff its type is
\* "event", neither its public_notes nor its notes (lower-cased) contains a
\* non-buyable phrase, its retail_price is a number in (0, 100000), its
\* available_quantity is an integer q with 2 <= q < 10000 and its splits
\* contain 2
C17_Eligibility ==
    call.fn = "aggregatePrices" /\ call.returned /\ Len(call.listings) = 1
    => (call.result # NullAggregate <=> EligibleInWords(call.listings[1]))

(***************************************************************************)
(* Properties of applyEndedEventHourlyRetention.                           *)
(***************************************************************************)
RetentionRuns ==
    IF call.fn = "applyEndedEventHourlyRetention" THEN call.runs ELSE <<>>

\* this step is a call of the function that returns
Retains ==
    /\ call.fn = "applyEndedEventHourlyRetention"
    /\ Len(call'.runs) = Len(call.runs) + 1
    /\ ~call'.runs[Len(call'.runs)].thrown

\* the call before this step returned, at the time the clock shows
JustRetained ==
    /\ RetentionRuns # <<>>
    /\ ~RetentionRuns[Len(RetentionRuns)].thrown
    /\ RetentionRuns[Len(RetentionRuns)].now = clock

\* C18: a run of applyEndedEventHourlyRetention that follows a run with the
\* same clock deletes no row: it leaves the store as the first run left it
\* and reports deletedHourlyRows = 0
C18_RetentionIdempotent ==
    /\ [](\A j \in 1..(Len(RetentionRuns) - 1) :
            /\ ~RetentionRuns[j].thrown
            /\ ~RetentionRuns[j + 1].thrown
            /\ RetentionRuns[j].now = RetentionRuns[j + 1].now
            => RetentionRuns[j + 1].result.deletedHourlyRows = 0)
    /\ [][Retains /\ JustRetained
            => /\ event_price_hourly' = event_price_hourly
               /\ event_price_daily' = event_price_daily
               /\ events' = events]_vars

\* a run that deleted rows and a second run with the same clock that reports 0
C18_Witness ==
    \E j \in 1..(Len(RetentionRuns) - 1) :
        /\ ~RetentionRuns[j].thrown
        /\ ~RetentionRuns[j + 1].thrown
        /\ RetentionRuns[j].now = RetentionRuns[j + 1].now
        /\ RetentionRuns[j].result.deletedHourlyRows > 0
        /\ RetentionRuns[j + 1].result.deletedHourlyRows = 0

\* the event is ended at time nowT: ended_at is set, or it is not and ends_at
\* is before nowT
EndedAt(e, nowT) ==
    \/ events[e].ended_at # NULL
    \/ /\ events[e].ended_at = NULL
       /\ events[e].ends_at # NULL
       /\ events[e].ends_at < nowT

\* C19: a run of applyEndedEventHourlyRetention changes an hourly row only
\* by deleting it, and only a row of an ended event whose captured_at_hour
\* is strictly before now - retentionDays; the rows of events that are not
\* ended, the rows at or after the cutoff and all daily rows stay as they are
C19_RetentionDeletesOnly ==
    [][Retains
        => /\ \A k \in DOMAIN event_price_hourly :
                event_price_hourly'[k] # event_price_hourly[k]
                => /\ event_price_hourly'[k] = NoHourly
                   /\ EndedAt(k[1], clock)
                   /\ k[2] < clock - RetentionDaysDefault * DayMinutes
           /\ event_price_daily' = event_price_daily]_vars

\* a run at time 0 has deleted the old row of an ended event and kept its
\* row of the cutoff hour, and has kept the old row of an event not ended
C19_Witness ==
    /\ RetentionRuns # <<>>
    /\ ~RetentionRuns[1].thrown
    /\ RetentionRuns[1].now = 0
    /\ \E e \in EventIds :
          /\ EndedAt(e, 0)
          /\ event_price_hourly[<<e, OldHour>>] = NoHourly
          /\ event_price_hourly[<<e, CutoffHour>>] # NoHourly
    /\ \E e \in EventIds :
          /\ ~EndedAt(e, MaxClock + 1)
          /\ event_price_hourly[<<e, OldHour>>] # NoHourly

\* when the event ended: ended_at, or ends_at when ended_at is not set
EndTime(e) ==
    IF events[e].ended_at # NULL THEN events[e].ended_at
    ELSE events[e].ends_at

\* C20: retention deletes no hourly row of an event while fewer than
\* HOURLY_RETENTION_DAYS_AFTER_END days have passed since the event ended
C20_KeptAfterEnd ==
    [][Retains
        => \A k \in DOMAIN event_price_hourly :
              event_price_hourly[k] # NoHourly
                  /\ event_price_hourly'[k] = NoHourly
              => /\ EndTime(k[1]) # NULL
                 /\ clock - EndTime(k[1])
                       >= RetentionDaysDefault * DayMinutes]_vars

(***************************************************************************)
(* Properties of processBatch.                                             *)
(***************************************************************************)
\* the events whose TE call (retries included) has not settled
TeInFlight(i) == {e \in EventIds : inv[i].stage[e] = "te"}

\* the events whose processEvent has started and has not settled
Unsettled(i) == {e \in EventIds : inv[i].stage[e] \notin {"idle", "done"}}

\* the place of event e in the list the invocation polls
PlaceOf(i, e) == CHOOSE k \in 1..Len(inv[i].events) : inv[i].events[k] = e

\* the number of the batch (from 0) that place k belongs to
BatchOf(k) == (k - 1) \div BATCH_SIZE

\* C29: within one invocation the unsettled processEvent calls all belong to
\* one batch, so at most BATCH_SIZE TE calls are in flight; a processEvent of
\* a batch starts only when every processEvent of the batches before it has
\* settled, its writes included
C29_BatchByBatch ==
    /\ [](\A i \in Invocations :
            /\ Cardinality(TeInFlight(i)) <= BATCH_SIZE
            /\ \A e, f \in Unsettled(i) :
                  BatchOf(PlaceOf(i, e)) = BatchOf(PlaceOf(i, f)))
    /\ [][\A i \in Invocations : \A e \in EventIds :
            inv[i].stage[e] = "idle" /\ inv'[i].stage[e] = "te"
            => \A k \in 1..Len(inv'[i].events) :
                  BatchOf(k) < BatchOf(PlaceOf(i, e)')
                  => inv[i].stage[inv'[i].events[k]] = "done"]_vars

\* the second batch is in flight after a first batch of BATCH_SIZE events
C29_Witness ==
    \E i \in Invocations :
        /\ inv[i].pc = "batch"
        /\ inv[i].i = BATCH_SIZE
        /\ TeInFlight(i) # {}
        /\ Cardinality({e \in EventIds : inv[i].stage[e] = "done"})
              = BATCH_SIZE

(***************************************************************************)
(* Properties of the backoff of fetchWithRetry.                            *)
(***************************************************************************)
\* every attempt of the call fails with a failure that is transient and that
\* the code retries
AlwaysTransient ==
    \A a \in 1..MAX_RETRIES :
        /\ ~call.answers[a].ok
        /\ Transient(call.answers[a])
        /\ isRetryable(call.answers[a].error)

\* C30: a call that fails transiently on every attempt waits 1s, 2s and 4s
\* between its attempts (1000 * 2^(n-1) ms before retry n) and then throws
\* the last error; there are at most MAX_RETRIES attempts, and no attempt
\* follows one that succeeded
C30_Backoff ==
    call.fn = "fetchWithRetry" /\ call.outcome # "pending"
    => /\ call.calls <= MAX_RETRIES
       /\ \A n \in 1..Len(call.delays) : call.delays[n] = 1000 * (2 ^ (n - 1))
       /\ \A a \in 1..(call.calls - 1) : ~call.answers[a].ok
       /\ (AlwaysTransient
             => /\ call.outcome = "thrown"
                /\ call.value = call.answers[MAX_RETRIES]
                /\ call.delays = <<1000, 2000, 4000>>)

(***************************************************************************)
(* Properties of TicketEvolutionClient.                                    *)
(***************************************************************************)
\* the keys of the sequence of pairs ascend
KeysAscend(pairs) ==
    \A j \in 1..(Len(pairs) - 1) :
        TextBefore(KeyChars(pairs[j][1]), KeyChars(pairs[j + 1][1]))

\* key=value of the pairs, joined by "&", spaces as %20
RECURSIVE JoinPairs(_)
JoinPairs(pairs) ==
    IF pairs = <<>> THEN <<>>
    ELSE <<pairs[1][1], "=">>
         \o ReplaceAll(UrlEncode(pairs[1][2]), <<"+">>, <<"%", "2", "0">>)
         \o (IF Len(pairs) = 1 THEN <<>>
             ELSE <<"&">> \o JoinPairs(Tail(pairs)))

\* C26: the signed string is "<METHOD> <hostname><version-prefixed path>
\* <query>"; the query begins with "?", is "?" alone for the empty map, and
\* lists the parameters in ascending order of their keys; the same method,
\* host, path, map and secret give the same signature whatever the insertion
\* order of the map
C26_CanonicalString ==
    call.fn = "TicketEvolutionClient" /\ call.pc \in {"signed", "sent"}
    => LET head == <<call.method, " ", call.client.baseUrl.hostname>>
                   \o VersionPrefix(call.client.baseUrl)
                   \o (IF Head(call.endpoint) = "/" THEN <<>> ELSE <<"/">>)
                   \o call.endpoint
           query == SubSeq(call.signed, Len(head) + 1, Len(call.signed))
       IN /\ SubSeq(call.signed, 1, Len(head)) = head
          /\ query # <<>> /\ Head(query) = "?"
          /\ (call.params = <<>> => query = <<"?">>)
          /\ \E sorted \in ParamMaps :
                /\ SameMap(sorted, call.params)
                /\ KeysAscend(sorted)
                /\ query = <<"?">> \o JoinPairs(sorted)
          /\ call.signedReordered = call.signed
          /\ call.signatureReordered = call.signature

\* a map of three parameters, inserted in descending order of the keys and
\* again in another order, has been signed
C26_Witness ==
    /\ call.fn = "TicketEvolutionClient" /\ call.pc = "sent"
    /\ Len(call.params) = 3
    /\ call.reordered # call.params
    /\ \A j \in 1..2 : TextBefore(KeyChars(call.params[j + 1][1]),
                                  KeyChars(call.params[j][1]))
    /\ \E j \in 1..3 : call.params[j] = <<"q", <<"a", " ", "b">>>>

\* C27: with TE_API_BASE_URL set, the request goes to that base URL and the
\* signed string holds that URL's hostname and version prefix; the sandbox
\* URL is used only when the variable is unset
C27_BaseUrlOverride ==
    call.fn = "TicketEvolutionClient" /\ call.pc = "sent" /\ call.env # "null"
    => LET url == BaseUrlOf(call.env)
           head == <<"GET", " ", url.hostname>> \o VersionPrefix(url)
       IN /\ call.request.base = call.env
          /\ SubSeq(call.request.signed, 1, Len(head)) = head

(***************************************************************************)
(* Properties of refresh-event-metadata.                                   *)
(***************************************************************************)
Refreshing == call.fn = "refresh-event-metadata"

\* the row of the snapshot the loop is at, and what TE answers for it
RowAt(k) == call.rows[k].row

TeAt(k) == call.te[call.rows[k].te_event_id]

\* the TE answer has the fields the refresher requires
TeUsable(payload) ==
    /\ payload.ok
    /\ payload.event.name # "null"
    /\ payload.event.occurs_at.at # NaN

\* regeneration is required for the row: olt_url is missing, or title,
\* starts_at or ends_at differ from TE's
RegenerationRequired(row, teEvent) ==
    \/ row.olt_url = NoUrl
    \/ row.title # teEvent.name
    \/ row.starts_at # teEvent.occurs_at
    \/ row.ends_at # Time(teEvent.occurs_at.at
                          + EVENT_DURATION_HOURS * HourMinutes, "iso")

\* the loop has just gone past row k
Passed(k) == Refreshing /\ call.pos = k /\ call'.pos = k + 1

\* C21: when regeneration is required for a row and buildOltEventUrl
\* fails, the loop passes the row with the result status=error and without
\* any write to the events table; and every response of a run that read
\* the table has one result for each row read, in order
C21_FailClosed ==
    /\ [](Refreshing
          => \A n \in 1..Len(call.reports) :
                call.reports[n].status = "ok"
                => /\ Len(call.reports[n].results) = call.reports[n].scanned
                   /\ call.reports[n].scanned = NumRefreshEvents
                   /\ \A k \in 1..NumRefreshEvents :
                         call.reports[n].results[k].te_event_id = k)
    /\ [][\A k \in 1..NumRefreshEvents :
            (/\ Passed(k)
             /\ TeUsable(TeAt(k))
             /\ RegenerationRequired(RowAt(k), TeAt(k).event)
             /\ ~buildOltEventUrl(TeAt(k).event).ok)
            => /\ call.pc = "loop"
               /\ events' = events
               /\ call'.results[k].status = "error"
               /\ call'.results[k].te_event_id = call.rows[k].te_event_id
          ]_vars

\* a run has answered: event 1, whose title changed and whose time zone
\* Intl rejects, is an error and its row is as it was read; event 2 after
\* it was updated
C21_Witness ==
    /\ Refreshing /\ call.pc = "done" /\ ~call.dryRun
    /\ Len(call.reports) = 1 /\ call.reports[1].status = "ok"
    /\ call.te[1].ok /\ call.te[1].event.timezone = "Mars/Olympus"
    /\ call.te[1].event.name # call.rows[1].row.title
    /\ call.reports[1].results[1].status = "error"
    /\ call.reports[1].results[2].status = "updated"
    /\ events[1] = call.rows[1].row
    /\ events[2] # call.rows[2].row

\* the end TE implies for the event, and whether it is over at the time
EndOf(teEvent) == teEvent.occurs_at.at + EVENT_DURATION_HOURS * HourMinutes

Over(teEvent, now) == now > EndOf(teEvent)

\* the proposed set for a row: title, starts_at and ends_at from TE, the
\* flag cleared when the event is over, ended_at set when it first is over,
\* olt_url rebuilt when regeneration is required, updated_at = now
ProposedFor(row, teEvent, now) ==
    [title |-> teEvent.name,
     starts_at |-> teEvent.occurs_at,
     ends_at |-> Time(EndOf(teEvent), "iso"),
     polling_enabled |-> row.polling_enabled /\ ~Over(teEvent, now),
     ended_at |-> IF row.ended_at # NullTime THEN row.ended_at
                  ELSE IF Over(teEvent, now) THEN Time(now, "iso")
                  ELSE NullTime,
     olt_url |-> IF RegenerationRequired(row, teEvent)
                 THEN buildOltEventUrl(teEvent).url ELSE row.olt_url,
     updated_at |-> Time(now, "iso")]

DiffFields == <<"title", "starts_at", "ends_at", "polling_enabled",
                "ended_at", "olt_url">>

\* the fields in which the proposal differs from the row, in order
RECURSIVE Differing(_, _, _)
Differing(row, proposed, fields) ==
    IF fields = <<>> THEN <<>>
    ELSE (IF row[Head(fields)] # proposed[Head(fields)]
          THEN <<Head(fields)>> ELSE <<>>)
         \o Differing(row, proposed, Tail(fields))

DryRequested == call.request.dry_run \in {"null", "true"}

\* the row can be proposed for: TE answers with the required fields and
\* the URL, where required, can be built
Proposable(k) ==
    /\ TeUsable(TeAt(k))
    /\ (RegenerationRequired(RowAt(k), TeAt(k).event)
        => buildOltEventUrl(TeAt(k).event).ok)

\* between the two runs no event's end has passed
SameEnded ==
    \A e \in RefreshIds :
        TeUsable(call.te[e])
        => (Over(call.te[e].event, call.times[1])
            <=> Over(call.te[e].event, call.times[2]))

Updates(e) ==
    /\ Refreshing /\ call.pc = "update" /\ call'.pc = "loop"
    /\ call.rows[call.pos].te_event_id = e
    /\ call'.results[call.pos].status = "updated"

\* C24: an UPDATE of the refresher leaves polling_enabled false when the
\* event is over and otherwise as it is stored at the time of the UPDATE;
\* it never turns a stored false into true
C24_NeverReEnables ==
    [][\A e \in RefreshIds :
          Updates(e)
          => /\ events'[e].polling_enabled
                  = (events[e].polling_enabled
                     /\ ~Over(call.te[e].event, call.nowMs))
             /\ (~events[e].polling_enabled => ~events'[e].polling_enabled)
      ]_vars

\* C23: no step sets an ended_at that is not null back to null
C23_EndedAtMonotonic ==
    [][\A e \in RefreshIds :
          events[e].ended_at # NullTime => events'[e].ended_at # NullTime
      ]_vars

\* the steps of the refresher keep a set ended_at
RefresherKeepsEndedAt ==
    [][Refreshing /\ call'.pos # call.pos
       => \A e \in RefreshIds :
             events[e].ended_at # NullTime => events'[e].ended_at # NullTime
      ]_vars

\* the steps of upsertEvent.js keep a set ended_at
UpsertEventKeepsEndedAt ==
    [][Refreshing /\ call'.upsertEvent # call.upsertEvent
       => \A e \in RefreshIds :
             events[e].ended_at # NullTime => events'[e].ended_at # NullTime
      ]_vars

\* the upsert of populateEventsByPerformer.js keeps a set ended_at
PopulateKeepsEndedAt ==
    [][Refreshing /\ call'.populate # call.populate
       => \A e \in RefreshIds :
             events[e].ended_at # NullTime => events'[e].ended_at # NullTime
      ]_vars

\* C28: after an apply-mode run, the olt_url stored for an event that was
\* passed without error is buildOltEventUrl of the event TE now answers
\* with, whatever of title, venue and occurs_at changed since it was built
C28_UrlFollowsTe ==
    Refreshing /\ call.pc = "done" /\ ~DryRequested
    /\ Len(call.reports) = 1 /\ call.reports[1].status = "ok"
    => \A k \in 1..Len(call.rows) :
          LET id == call.rows[k].te_event_id
          IN TeUsable(call.te[id])
             /\ buildOltEventUrl(call.te[id].event).ok
             /\ call.reports[1].results[k].status # "error"
             => events[id].olt_url = buildOltEventUrl(call.te[id].event).url

\* the same for the events whose venue is the one the stored URL was built
\* from
UrlFollowsTitleAndTime ==
    Refreshing /\ call.pc = "done" /\ ~DryRequested
    /\ Len(call.reports) = 1 /\ call.reports[1].status = "ok"
    => \A k \in 1..Len(call.rows) :
          LET id == call.rows[k].te_event_id
          IN TeUsable(call.te[id])
             /\ buildOltEventUrl(call.te[id].event).ok
             /\ call.te[id].event.venue = BaseVenue
             /\ call.reports[1].results[k].status # "error"
             => events[id].olt_url = buildOltEventUrl(call.te[id].event).url

\* the text is a valid id: a positive integer
ValidId(text) == text # "null" /\ ParseInt(text) # NaN /\ ParseInt(text) > 0

\* the ids the request selects by the precedence: query parameter, body
\* event_id, te_event_ids array, all
IdsByPrecedence(request) ==
    IF ValidId(request.query) THEN {ParseInt(request.query)}
    ELSE IF ValidId(request.event_id) THEN {ParseInt(request.event_id)}
    ELSE IF request.te_event_ids.given
    THEN Range(request.te_event_ids.ids) \cap RefreshIds
    ELSE RefreshIds

\* the run has read its rows
RowsRead == Refreshing /\ call.pc \in {"loop", "update"}

\* C25: the rows a run works on are those of the ids selected by the
\* precedence query event_id (if valid), body event_id (if valid),
\* te_event_ids (if provided), all
C25_IdPrecedence ==
    RowsRead
    => {call.rows[k].te_event_id : k \in 1..Len(call.rows)}
         = IdsByPrecedence(call.request)

\* the same for the requests whose query parameter, when it is no valid
\* id, is no number at all and whose array, when given, holds a valid id
IdPrecedenceForPlainRequests ==
    RowsRead
    /\ (call.request.query # "null" /\ ~ValidId(call.request.query)
        => ParseInt(call.request.query) = NaN)
    /\ (call.request.te_event_ids.given
        => \E k \in 1..Len(call.request.te_event_ids.ids) :
              call.request.te_event_ids.ids[k] > 0)
    => {call.rows[k].te_event_id : k \in 1..Len(call.rows)}
         = IdsByPrecedence(call.request)

\* the entry of results for row k names olt_url among the changed fields
UrlReported(results, k) ==
    /\ results[k].status = "updated"
    /\ "olt_url" \in Range(results[k].changes)

SuppliedIds(request) ==
    (IF request.query # "null" THEN {ParseInt(request.query)} ELSE {})
    \cup (IF request.event_id # "null" THEN {ParseInt(request.event_id)}
          ELSE {})
    \cup (IF request.te_event_ids.given THEN Range(request.te_event_ids.ids)
          ELSE {})

SuppliesIds(request) ==
    \/ request.query # "null"
    \/ request.event_id # "null"
    \/ request.te_event_ids.given

\* the step is the loop body's TE call for event e
FetchesFromTe(e) ==
    /\ Refreshing /\ call.pc = "loop" /\ call.pos <= Len(call.rows)
    /\ call.rows[call.pos].te_event_id = e
    /\ call' # call

\* C39: a run whose request supplies an event_id or a te_event_ids array
\* fetches from TE and updates no event whose id is not among the supplied
\* ids
C39_OnlySuppliedIds ==
    [][Refreshing /\ SuppliesIds(call.request)
       => \A e \in RefreshIds :
             FetchesFromTe(e) \/ events'[e] # events[e]
             => e \in SuppliedIds(call.request)
      ]_vars

\* the same for the requests that supply a valid id, whose query parameter,
\* when it is no valid id, is no number at all and whose array, when given,
\* holds a valid id
OnlySuppliedIdsForPlainRequests ==
    [][/\ Refreshing /\ (\E id \in SuppliedIds(call.request) : id > 0)
       /\ (call.request.query # "null" /\ ~ValidId(call.request.query)
           => ParseInt(call.request.query) = NaN)
       /\ (call.request.te_event_ids.given
           => \E k \in 1..Len(call.request.te_event_ids.ids) :
                 call.request.te_event_ids.ids[k] > 0)
       => \A e \in RefreshIds :
             FetchesFromTe(e) \/ events'[e] # events[e]
             => e \in SuppliedIds(call.request)
      ]_vars

Slugified == call.fn = "slugify" /\ call.pc = "done"

\* the maximal runs of hyphens of a text, as pairs <<first, last>>
HyphenRuns(text) ==
    {r \in (1..Len(text)) \X (1..Len(text)) :
        /\ r[1] <= r[2]
        /\ \A k \in r[1]..r[2] : text[k] = "-"
        /\ r[1] > 1 => text[r[1] - 1] # "-"
        /\ r[2] < Len(text) => text[r[2] + 1] # "-"}

\* C35: for every input, the output of slugify has only characters of
\* [a-z0-9()-], neither begins nor ends with a hyphen, and each of its
\* maximal runs of hyphens has length 1 or 3
C35_SlugShape ==
    Slugified =>
        /\ \A k \in 1..Len(call.result) :
              call.result[k] \in SlugChars \cup {"-"}
        /\ call.result # <<>> =>
              /\ Head(call.result) # "-"
              /\ call.result[Len(call.result)] # "-"
        /\ \A r \in HyphenRuns(call.result) : r[2] - r[1] + 1 \in {1, 3}

\* what slugify does ensure: the characters, runs of at most three hyphens,
\* and length 1 or 3 for the runs that touch neither end of the output
SlugShapeInside ==
    Slugified =>
        /\ \A k \in 1..Len(call.result) :
              call.result[k] \in SlugChars \cup {"-"}
        /\ \A r \in HyphenRuns(call.result) :
              /\ r[2] - r[1] + 1 <= 3
              /\ r[1] > 1 /\ r[2] < Len(call.result)
                    => r[2] - r[1] + 1 \in {1, 3}

\* an output with a hyphen at its start
SlugWithEdgeHyphen ==
    Slugified /\ call.result # <<>> /\ Head(call.result) = "-"

Built == call.fn = "buildOltEventUrl" /\ call.pc = "done"

\* the event has its id, its name and its occurs_at
HasRequiredFields(e) ==
    /\ e.id # NULL
    /\ e.name # "null"
    /\ e.occurs_at \notin {NoTime, NullOccursAt}

\* C34: buildOltEventUrl fails for an event that lacks its id, its name or
\* its occurs_at and returns a URL only for an event that has all three
C34_RequiredFields ==
    Built => (call.result.ok <=> HasRequiredFields(call.event))

\* what buildOltEventUrl does: it fails exactly for a time Date cannot
\* read (an undefined or unparseable occurs_at) or a time zone Intl does
\* not know
BuildFailsOnDateOrZone ==
    Built =>
        (call.result.ok <=>
            /\ call.event.occurs_at \notin {NoTime, NotADate}
            /\ call.event.timezone
                  \in {"null", "America/Chicago", "America/New_York"})

\* a URL built for an event without id and without name
UrlWithoutIdAndName ==
    /\ Built /\ call.result.ok
    /\ call.event.id = NULL /\ call.event.name = "null"

\* the retention step of invocation i has failed
RetentionFailed(i) == inv[i].retentionError # "null"

\* the status the results of invocation i imply
StatusOfResults(i) ==
    FinalStatus(CountStatus(inv[i].results, "succeeded"),
                CountStatus(inv[i].results, "failed"))

\* C33: a failure of the retention step does not abort the run: the
\* invocation never enters the catch, polls every selected event, responds
\* 200 with the status its per-event counts imply, and the final UPDATE
\* writes that status, finished_at and the failure message (debug.retention)
C33_RetentionNonFatal ==
    /\ [](\A i \in Invocations :
            RetentionFailed(i) =>
                /\ inv[i].pc # "catch"
                /\ inv[i].pc = "done" =>
                      /\ inv[i].response.http = 200
                      /\ inv[i].response.status = StatusOfResults(i)
                      /\ Len(inv[i].results) = Len(inv[i].events))
    /\ [][\A i \in Invocations :
            /\ RetentionFailed(i)
            /\ inv[i].pc # "done" /\ inv'[i].pc = "done"
            /\ poller_runs'[hourBucket(i)] # poller_runs[hourBucket(i)]
            => /\ poller_runs'[hourBucket(i)].finished_at # NULL
               /\ poller_runs'[hourBucket(i)].status = StatusOfResults(i)'
               /\ poller_runs'[hourBucket(i)].retention_error
                     = inv[i].retentionError
         ]_vars

\* a run whose retention failed has polled its events and finished the row
\* as partial, with the failure message
C33_Witness ==
    \E i \in Invocations :
        /\ RetentionFailed(i) /\ inv[i].pc = "done"
        /\ Len(inv[i].results) > 1
        /\ poller_runs[hourBucket(i)].status = "partial"
        /\ poller_runs[hourBucket(i)].finished_at # NULL
        /\ poller_runs[hourBucket(i)].retention_error = "Retention query failed"

\* invocation i acquired the lock of its hour and has sent its response
RespondedAsHolder(i) ==
    inv[i].acquired # "none" /\ inv[i].pc = "done"

\* C36: an invocation that acquired the lock and has responded has set
\* finished_at on the row of its hour, also when an UPDATE of the run row
\* returned a database error
C36_FinishedAtOnResponse ==
    \A i \in Invocations :
        RespondedAsHolder(i) =>
            poller_runs[hourBucket(i)].finished_at # NULL

\* the same for the responses whose last UPDATE returned no error
FinishedAtUnlessUpdateFails ==
    [][\A i \in Invocations :
          /\ inv[i].acquired # "none"
          /\ inv[i].pc # "done" /\ inv'[i].pc = "done"
          /\ dbErrors' = dbErrors
          => poller_runs'[hourBucket(i)].finished_at # NULL
      ]_vars

\* the step is the final UPDATE of invocation i, which reclaimed the lock,
\* and the UPDATE writes the row
ReclaimerFinalizes(i) ==
    /\ inv[i].acquired = "reclaim"
    /\ inv[i].pc \in {"finish_empty", "finalize"} /\ inv'[i].pc = "done"
    /\ poller_runs'[hourBucket(i)].finished_at # NULL
    /\ poller_runs'[hourBucket(i)] # poller_runs[hourBucket(i)]

\* the outcome fields of the row are those of the run of invocation i
OutcomeOf(row, i) ==
    /\ row.status = StatusOfResults(i)
    /\ row.error_sample = FirstErrorMessage(inv[i].results)
    /\ row.events_total = Len(inv[i].events)
    /\ row.events_processed = Len(inv[i].results)
    /\ row.events_succeeded = CountStatus(inv[i].results, "succeeded")
    /\ row.events_failed = CountStatus(inv[i].results, "failed")

\* C37: when a run that reclaimed a stale lock finalizes, status,
\* error_sample, events_total, events_processed, events_succeeded and
\* events_failed of the row are those of the reclaiming run; a row finalized
\* as succeeded does not keep error_sample = stale_lock_timeout
C37_ReclaimedOutcome ==
    [][\A i \in Invocations :
          ReclaimerFinalizes(i) =>
              /\ OutcomeOf(poller_runs'[hourBucket(i)], i)
              /\ poller_runs'[hourBucket(i)].status = "succeeded"
                    => poller_runs'[hourBucket(i)].error_sample
                          # "stale_lock_timeout"
      ]_vars

\* the same for the reclaiming runs that have events to poll
ReclaimedOutcomeWithEvents ==
    [][\A i \in Invocations :
          ReclaimerFinalizes(i) /\ Len(inv[i].events) > 0 =>
              /\ poller_runs'[hourBucket(i)].status = StatusOfResults(i)
              /\ poller_runs'[hourBucket(i)].error_sample
                    = FirstErrorMessage(inv[i].results)
              /\ poller_runs'[hourBucket(i)].events_processed
                    = Len(inv[i].results)
              /\ poller_runs'[hourBucket(i)].events_succeeded
                    = CountStatus(inv[i].results, "succeeded")
              /\ poller_runs'[hourBucket(i)].events_failed
                    = CountStatus(inv[i].results, "failed")
      ]_vars

\* a finished row with status succeeded and error_sample stale_lock_timeout
SucceededWithStaleSample ==
    \E h \in HourBuckets :
        /\ poller_runs[h].finished_at # NULL
        /\ poller_runs[h].status = "succeeded"
        /\ poller_runs[h].error_sample = "stale_lock_timeout"

\* the events that have a row in poller_run_events for hour h, and those
\* whose row has status st
RunEventRows(h) ==
    {e \in EventIds : poller_run_events[<<h, e>>] # NoRunEvent}

RunEventRowsWith(h, st) ==
    {e \in RunEventRows(h) : poller_run_events[<<h, e>>].status = st}

\* the rows of poller_run_events of hour h are as many as events_total and
\* their numbers by status are the counts of the run row (null read as 0)
RunEventsMatchRun(h) ==
    /\ Cardinality(RunEventRows(h)) = Num(poller_runs[h].events_total)
    /\ Cardinality(RunEventRowsWith(h, "succeeded"))
          = Num(poller_runs[h].events_succeeded)
    /\ Cardinality(RunEventRowsWith(h, "failed"))
          = Num(poller_runs[h].events_failed)
    /\ Cardinality(RunEventRowsWith(h, "skipped"))
          = Num(poller_runs[h].skipped_count)

\* C38: for every finished row of poller_runs, poller_run_events has exactly
\* one row of that hour per event counted in events_total, and the numbers
\* of rows with status succeeded, failed and skipped equal events_succeeded,
\* events_failed and debug.skipped_count
C38_RunEventsMatchRun ==
    \A h \in HourBuckets :
        poller_runs[h].finished_at # NULL => RunEventsMatchRun(h)

\* the same for the hour of a run that inserted its row, met no database
\* error and has responded
RunEventsMatchRunWithoutErrors ==
    \A i \in Invocations :
        /\ inv[i].acquired = "insert" /\ inv[i].pc = "done"
        /\ dbErrors = 0
        => RunEventsMatchRun(hourBucket(i))

\* a finished run that counts a polled event for which there is no row
FinishedWithoutRunEvent ==
    \E i \in Invocations :
        /\ inv[i].pc = "done"
        /\ poller_runs[hourBucket(i)].finished_at # NULL
        /\ poller_runs[hourBucket(i)].events_total = Len(inv[i].results)
        /\ Cardinality(RunEventRows(hourBucket(i))) < Len(inv[i].results)

\* a hour finished by a reclaiming run, without any database error, whose
\* row counts fewer events than the hour has rows in poller_run_events
RerunLeavesRunEvents ==
    \E i \in Invocations :
        /\ inv[i].acquired = "reclaim" /\ inv[i].pc = "done"
        /\ dbErrors = 0
        /\ poller_runs[hourBucket(i)].finished_at # NULL
        /\ poller_runs[hourBucket(i)].events_total = Len(inv[i].events)
        /\ Cardinality(RunEventRows(hourBucket(i))) > Len(inv[i].events)

\* events_processed of the row of the hour of invocation i never exceeds
\* its events_total (null read as 0)
ProcessedWithinTotal(i) ==
    inv[i].acquired # "none" =>
        Num(poller_runs[hourBucket(i)].events_processed)
            <= Num(poller_runs[hourBucket(i)].events_total)

\* what a step does to events_processed of the row of the hour of
\* invocation i, which holds the lock: it does not decrease; after the
\* batch that starts at index inv[i].i it is min(i + BATCH_SIZE, total);
\* at finalization it is the number of selected events
ProcessedAdvances(i) ==
    LET h == hourBucket(i)
    IN /\ inv[i].acquired # "none" /\ inv'[i].acquired # "none"
          => Num(poller_runs'[h].events_processed)
                >= Num(poller_runs[h].events_processed)
       /\ inv[i].pc = "batch" /\ inv'[i].results # inv[i].results
          => poller_runs'[h].events_processed
                = Min2(inv[i].i + BATCH_SIZE, Len(inv[i].events))
       /\ inv[i].pc \in {"finish_empty", "finalize"} /\ inv'[i].pc = "done"
          => /\ poller_runs'[h].events_processed = Len(inv[i].events)
             /\ Len(inv[i].events) = Num(poller_runs'[h].events_total)

\* C40: during a run, events_processed of the run row never decreases after
\* the lock is acquired, never exceeds events_total, is
\* min(k * BATCH_SIZE, events_total) after the k-th batch and events_total
\* at finalization
C40_ProcessedProgress ==
    /\ [](\A i \in Invocations : ProcessedWithinTotal(i))
    /\ [][\A i \in Invocations : ProcessedAdvances(i)]_vars

\* the same as long as no database call has returned an error
ProcessedProgressWithoutErrors ==
    /\ [](dbErrors = 0 => \A i \in Invocations : ProcessedWithinTotal(i))
    /\ [][dbErrors' = 0 => \A i \in Invocations : ProcessedAdvances(i)]_vars

\* the second batch of a run is under way and the run row still has
\* events_processed = 0
ProcessedBehindResults ==
    \E i \in Invocations :
        /\ inv[i].pc = "batch" /\ inv[i].i = BATCH_SIZE
        /\ Len(inv[i].results) = BATCH_SIZE
        /\ poller_runs[hourBucket(i)].events_processed = 0

\* the steps of the holder alone
ProcessedProgressSteps ==
    [][\A i \in Invocations : ProcessedAdvances(i)]_vars

\* the hourly rows the step deletes
DeletedHourly ==
    {k \in DOMAIN event_price_hourly :
        event_price_hourly[k] # NoHourly /\ event_price_hourly'[k] = NoHourly}

\* the day of an hourly row
DateOf(k) == <<k[1], k[2] \div DayMinutes>>

\* C31: pruning of hourly rows never precedes the daily rollup: no step
\* deletes an hourly row whose day has no daily row for the event
C31_PruneAfterRollup ==
    [][\A k \in DeletedHourly : event_price_daily'[DateOf(k)] # NoDaily]_vars

\* the same for the daily job, and for the hourly runs under a horizon of at
\* least one day within the clock of the model
PruneAfterRollupByDays ==
    [][call.fn = "retention" /\ RetentionDaysOf(call.env) >= 1
          => \A k \in DeletedHourly :
                event_price_daily'[DateOf(k)] # NoDaily]_vars

\* an ended event has lost the hourly row of the current day and has no
\* daily row of that day
PrunedBeforeRollup ==
    \E e \in EventIds :
        /\ call.fn = "retention" /\ call.dailyJobs = 0
        /\ events[e].ends_at = TickMinutes
        /\ event_price_hourly[<<e, 0>>] = NoHourly
        /\ event_price_daily[<<e, 0>>] = NoDaily
====
